---- MODULE Spec2Model ----
(***************************************************************************)
(* twig: the tmux control-mode client (src/src/tmux_control.rs) and the    *)
(* session orchestration built on it (src/src/tmux.rs).                    *)
(*                                                                         *)
(* Part 1  the line protocol: ControlClient::command and                   *)
(*         ControlClient::command_with_output reading the subprocess       *)
(*         output one line per loop iteration.                             *)
(*         SpecWire  : the stream is any sequence of lines.                *)
(*         SpecProto : the stream is produced by a multiplexer that        *)
(*                     answers every written command line with one block,  *)
(*                     notifications between the blocks.                   *)
(* Part 2  handoff_project_windows against panes that consume their        *)
(*         keystrokes asynchronously (SpecHandoff).                        *)
(* Part 3  start_with_control: create, post-create commands with wait      *)
(*         tokens, window setup (SpecSetup).                               *)
(***************************************************************************)
EXTENDS Integers, Sequences, FiniteSets, TLC

VARIABLES
  cl,        \* locals of the running ControlClient call and its position
  ret,       \* what the last call returned
  obs,       \* observer: what was read during the running call
  tm,        \* the multiplexer end of the control connection
  calls,     \* observer: the calls made, the running call's block, the previous status
  cfg,       \* the loaded Project: name, windows, worktree.handoff_windows
  srv,       \* the tmux server: sessions, windows, panes, wait-for channels
  ho,        \* handoff_project_windows: its locals and its position
  ho2,       \* a second invocation of handoff_project_windows, the one not scheduled
  sb,        \* SessionBuilder: its fields, the locals and position of start_with_control
  fn,        \* a helper function under test: its arguments, and its result once applied
  ks         \* kill_session_with_timeout: its locals and its position

wireVars == <<cl, ret, obs, tm, calls>>
handoffVars == <<cfg, srv, ho>>

vars == <<cl, ret, obs, tm, calls, cfg, srv, ho, ho2, sb, fn, ks>>

(***************************************************************************)
(* Bounds                                                                  *)
(***************************************************************************)
MaxCalls == 2      \* calls made on one connection
MaxRead == 6       \* lines read by one call (wire specification)
MaxOut == 2        \* output lines of one response block
MaxNotif == 2      \* notification lines the multiplexer emits per call
MaxFaults == 1     \* protocol calls of one operation that fail
MaxPost == 2       \* configured post-create commands
MaxLog == 3        \* keystrokes a pane has got when the handoff is run again
MaxIndex == 11     \* sequence index of a wait token (helper functions)
MaxNow == 11       \* timestamp of a wait token (helper functions)
MaxWait == 3       \* the timeout of kill_session, in polling intervals
MaxLen == 4        \* characters of a string given to a helper function

(***************************************************************************)
(* Lines of the control stream                                             *)
(***************************************************************************)
None == -1           \* Option::None of a u64 command id
MissingId == -1      \* a marker line with fewer than three fields
NotANumber == -2     \* a marker line whose third field is not a u64

Sentinel == "__TWIG_DONE__"
Texts == {"a", "b"}
PctTexts == {"%w"}   \* output text whose first character is '%'

MkLine(t, id, txt) == [t |-> t, id |-> id, txt |-> txt]
NoLine == MkLine("none", None, "")
EofLine == MkLine("eof", None, "")
ExitLine == MkLine("exit", None, "")
NotifLine == MkLine("notif", None, "%window-add")

\* trimmed.starts_with('%') for a line that is none of the markers
StartsWithPct(line) ==
  \/ line.t = "notif"
  \/ line.t = "out" /\ line.txt \in PctTexts

(***************************************************************************)
(* parse_command_id                                                        *)
(***************************************************************************)
NoErr == [kind |-> "none", line |-> NoLine]
MkErr(kind, line) == [kind |-> kind, line |-> line]

ParseCommandId(line) ==
  IF line.id = MissingId THEN [ok |-> FALSE, id |-> None, err |-> MkErr("malformed", line)]
  ELSE IF line.id = NotANumber THEN [ok |-> FALSE, id |-> None, err |-> MkErr("invalid_id", line)]
  ELSE [ok |-> TRUE, id |-> line.id, err |-> NoErr]

(***************************************************************************)
(* The client                                                              *)
(***************************************************************************)
IdleClient ==
  [pc |-> "idle", output |-> <<>>, command_id |-> None, sentinel_id |-> None,
   error |-> NoErr, sentinel_seen |-> FALSE, sentinel_end_seen |-> FALSE]

NoRet == [status |-> "none", lines |-> <<>>, err |-> NoErr]
RetOk(lines) == [status |-> "ok", lines |-> lines, err |-> NoErr]
RetErr(err) == [status |-> "err", lines |-> <<>>, err |-> err]

FreshObs ==
  [last |-> NoLine, begun |-> {}, kept |-> FALSE, bad |-> FALSE,
   firstErr |-> NoErr, nread |-> 0]

\* what the observer records when the running call reads `line`
Observe(line) ==
  [last |-> line,
   begun |-> IF line.t = "begin" /\ line.id >= 0 THEN obs.begun \cup {line.id} ELSE obs.begun,
   kept |-> obs.kept \/ (line.t = "out" /\ obs.begun # {}),
   bad |-> obs.bad \/ (line.t \in {"begin", "end"} /\ line.id < 0),
   firstErr |-> IF obs.firstErr.kind = "none" /\ line.t = "error" THEN MkErr("protocol", line)
                ELSE IF obs.firstErr.kind = "none" /\ line.t = "exit" THEN MkErr("exited", line)
                ELSE obs.firstErr,
   nread |-> obs.nread + 1]

(***************************************************************************)
(* ControlClient::command: one iteration of the read loop                  *)
(***************************************************************************)
Cont(c) == [cl |-> c, ret |-> NoRet]
Done(r) == [cl |-> IdleClient, ret |-> r]

CommandKeepsLine_NoSkip(c, line) == TRUE

\* the last three tests of the loop body: is the line pushed to `output`
CommandKeepsLine(c, line) ==
  /\ c.command_id # None
  /\ ~StartsWithPct(line)

CommandOnBegin(c, line) ==
  IF c.command_id = None
  THEN LET p == ParseCommandId(line)
       IN IF p.ok THEN Cont([c EXCEPT !.command_id = p.id]) ELSE Done(RetErr(p.err))
  ELSE Cont(c)

CommandOnEnd(c, line) ==
  IF c.command_id # None
  THEN LET p == ParseCommandId(line)
       IN IF ~p.ok THEN Done(RetErr(p.err))
          ELSE IF p.id = c.command_id THEN Done(RetOk(c.output))
          ELSE Cont(c)
  ELSE Cont(c)

CommandOnError_Skips(c, line) == Cont(c)

CommandOnError(c, line) == Done(RetErr(MkErr("protocol", line)))

CommandOnClosed_Partial(c, line) == Done(RetOk(c.output))

CommandOnClosed(c, line) ==
  IF line.t = "eof" THEN Done(RetErr(MkErr("closed", NoLine)))
  ELSE Done(RetErr(MkErr("exited", NoLine)))

CommandStep(c, line) ==
  IF line.t \in {"eof", "exit"} THEN CommandOnClosed(c, line)
  ELSE IF line.t = "error" THEN CommandOnError(c, line)
  ELSE IF line.t = "begin" THEN CommandOnBegin(c, line)
  ELSE IF line.t = "end" THEN CommandOnEnd(c, line)
  ELSE IF CommandKeepsLine(c, line) THEN Cont([c EXCEPT !.output = Append(@, line.txt)])
  ELSE Cont(c)

(***************************************************************************)
(* ControlClient::command_with_output: one iteration of the read loop,     *)
(* with the loop condition and the code after the loop                     *)
(***************************************************************************)
CwoOnExit(c, line) == [c EXCEPT !.error = MkErr("exited", NoLine)]

CwoOnError(c, line) ==
  IF c.error.kind = "none" THEN [c EXCEPT !.error = MkErr("protocol", line)] ELSE c

\* a record [ok, c, err]: the `?` on parse_command_id leaves the function
CwoOnBegin(c, line) ==
  IF c.command_id = None
  THEN LET p == ParseCommandId(line)
       IN [ok |-> p.ok, c |-> [c EXCEPT !.command_id = p.id], err |-> p.err]
  ELSE IF c.sentinel_id = None
  THEN LET p == ParseCommandId(line)
       IN [ok |-> p.ok, c |-> [c EXCEPT !.sentinel_id = p.id], err |-> p.err]
  ELSE [ok |-> TRUE, c |-> c, err |-> NoErr]

CwoOnEnd(c, line) ==
  IF c.sentinel_id # None
  THEN LET p == ParseCommandId(line)
       IN [ok |-> p.ok,
           c |-> IF p.ok /\ p.id = c.sentinel_id THEN [c EXCEPT !.sentinel_end_seen = TRUE] ELSE c,
           err |-> p.err]
  ELSE [ok |-> TRUE, c |-> c, err |-> NoErr]

CwoOnText_KeepsSentinel(c, line) ==
  IF StartsWithPct(line) THEN c ELSE [c EXCEPT !.output = Append(@, line.txt)]

CwoOnText(c, line) ==
  IF StartsWithPct(line) THEN c
  ELSE IF line.txt = Sentinel THEN [c EXCEPT !.sentinel_seen = TRUE]
  ELSE [c EXCEPT !.output = Append(@, line.txt)]

CwoLoop_StopsAtSentinel(c) ==
  IF ~c.sentinel_seen THEN Cont(c)
  ELSE IF c.error.kind # "none" THEN Done(RetErr(c.error))
  ELSE Done(RetOk(c.output))

\* the loop condition, then the code after the loop
CwoLoop(c) ==
  IF ~(c.sentinel_seen /\ c.sentinel_end_seen) THEN Cont(c)
  ELSE IF c.error.kind # "none" THEN Done(RetErr(c.error))
  ELSE Done(RetOk(c.output))

CwoStep(c, line) ==
  IF line.t = "eof" THEN Done(RetErr(MkErr("closed", NoLine)))
  ELSE IF line.t = "exit" THEN CwoLoop(CwoOnExit(c, line))
  ELSE IF line.t = "error" THEN CwoLoop(CwoOnError(c, line))
  ELSE IF line.t = "begin"
    THEN LET r == CwoOnBegin(c, line) IN IF r.ok THEN CwoLoop(r.c) ELSE Done(RetErr(r.err))
  ELSE IF line.t = "end"
    THEN LET r == CwoOnEnd(c, line) IN IF r.ok THEN CwoLoop(r.c) ELSE Done(RetErr(r.err))
  ELSE CwoLoop(CwoOnText(c, line))

(***************************************************************************)
(* The multiplexer end: one response block per written command line        *)
(***************************************************************************)
NewBlock(kind) == [kind |-> kind, state |-> "pending", id |-> None, out |-> <<>>]

\* kill_session_with_timeout has not been called
IdleKill ==
  [pc |-> "idle", name |-> <<>>, client |-> "none", elapsed |-> 0, requests |-> 0,
   polls |-> <<>>, result |-> "none"]

\* no helper function is under test
NoCall == [f |-> "none", done |-> FALSE]

InitTm == [alive |-> TRUE, blocks |-> <<>>, nextId |-> 0, notifs |-> 0]

\* index of the block the multiplexer answers next, 0 when every block is closed
CurBlock(t) ==
  LET open == {k \in 1..Len(t.blocks) : t.blocks[k].state \in {"pending", "open"}}
  IN IF open = {} THEN 0 ELSE CHOOSE k \in open : \A j \in open : k <= j

TmuxLines(t) ==
  IF ~t.alive THEN {EofLine}
  ELSE LET k == CurBlock(t) IN
    IF k # 0 /\ t.blocks[k].state = "open"
    THEN LET b == t.blocks[k] IN
      IF b.kind = "sentinel"
      THEN IF b.out = <<>> THEN {MkLine("out", None, Sentinel), MkLine("error", b.id, "")}
           ELSE {MkLine("end", b.id, "")}
      ELSE {MkLine("end", b.id, ""), MkLine("error", b.id, ""), EofLine}
           \cup (IF Len(b.out) < MaxOut
                 THEN {MkLine("out", None, x) : x \in Texts \cup PctTexts} ELSE {})
    ELSE {ExitLine}
         \cup (IF t.notifs < MaxNotif THEN {NotifLine} ELSE {})
         \cup (IF k # 0 THEN {MkLine("begin", t.nextId, "")} ELSE {})

TmuxEmit(t, line) ==
  LET k == CurBlock(t) IN
  IF line.t = "eof" \/ line.t = "exit" THEN [t EXCEPT !.alive = FALSE]
  ELSE IF line.t = "notif" THEN [t EXCEPT !.notifs = @ + 1]
  ELSE IF line.t = "begin"
    THEN [t EXCEPT !.blocks[k].state = "open", !.blocks[k].id = t.nextId, !.nextId = @ + 1]
  ELSE IF line.t = "out" THEN [t EXCEPT !.blocks[k].out = Append(@, line.txt)]
  ELSE [t EXCEPT !.blocks[k].state = line.t]

\* the blocks the multiplexer has not closed yet (the closed ones are history)
Unanswered(t) == SelectSeq(t.blocks, LAMBDA b : b.state \in {"pending", "open"})

(***************************************************************************)
(* Project configuration (src/src/config/project.rs)                       *)
(***************************************************************************)
NoCmd == "<none>"      \* Option::None of a command string (Pane::Empty)
Blank == " "           \* a whitespace-only command
Trim(text) == IF text = Blank THEN "" ELSE text

SimpleWindow(name, command) ==
  [name |-> name, complex |-> FALSE, command |-> command, panes |-> <<>>, layout |-> NoCmd]
ComplexWindow(name, layout, panes) ==
  [name |-> name, complex |-> TRUE, command |-> NoCmd, panes |-> panes, layout |-> layout]

SimpleCommand_NeverNone(window) ==
  IF window.complex THEN NoCmd ELSE IF window.command = NoCmd THEN "" ELSE window.command

\* Window::simple_command, Window::panes, Window::has_panes, Pane::command
SimpleCommand(window) == IF window.complex THEN NoCmd ELSE window.command
Panes(window) == IF window.complex THEN window.panes ELSE <<>>
HasPanes(window) == window.complex

\* session names are sequences of characters; "__" is one character here
Sep == "__"
ProjectName == <<"p">>
WorktreeSessionName(project, branch) == project \o <<Sep>> \o branch

\* the project files the model loads: the handoff window `server` is a
\* simple window, a window with an idle second pane, a window whose first
\* pane is empty, or one of two handoff windows
Projects ==
  LET shell == SimpleWindow("shell", NoCmd)
      mk(ws, hw) == [name |-> ProjectName, windows |-> ws, handoff_windows |-> hw]
  IN { mk(<<shell, SimpleWindow("server", "run")>>, <<"server">>),
       mk(<<shell, ComplexWindow("server", NoCmd, <<"run", NoCmd>>)>>, <<"server">>),
       mk(<<ComplexWindow("server", "main-horizontal", <<NoCmd, "run">>), shell>>, <<"server">>),
       mk(<<SimpleWindow("server", "run"), SimpleWindow("worker", "job")>>,
          <<"server", "worker">>) }

(***************************************************************************)
(* Session naming (src/src/tmux.rs 192-226)                                *)
(***************************************************************************)
WorktreeProjectName_LastSeparator(session_name) ==
  LET at == {i \in DOMAIN session_name : session_name[i] = Sep}
  IN IF at = {} THEN [some |-> FALSE, project |-> <<>>]
     ELSE [some |-> TRUE,
           project |-> SubSeq(session_name, 1, (CHOOSE i \in at : \A k \in at : i >= k) - 1)]

\* split_once("__"): the characters before the first separator, or none
WorktreeProjectName(session_name) ==
  LET at == {i \in DOMAIN session_name : session_name[i] = Sep}
  IN IF at = {} THEN [some |-> FALSE, project |-> <<>>]
     ELSE [some |-> TRUE,
           project |-> SubSeq(session_name, 1, (CHOOSE i \in at : \A k \in at : i <= k) - 1)]

IsWorktreeSessionForProject(session_name, project_name) ==
  LET r == WorktreeProjectName(session_name) IN r.some /\ r.project = project_name

IsProjectSession(project_name, session_name) ==
  session_name = project_name \/ IsWorktreeSessionForProject(session_name, project_name)

(***************************************************************************)
(* The tmux server: panes take their keystrokes one at a time              *)
(***************************************************************************)
Idle == ""      \* the pane's shell is at its prompt, no foreground process

IntKey == [t |-> "int", text |-> "C-c", token |-> <<>>]
SignalLine(token) == [t |-> "signal", text |-> "tmux wait-for -S", token |-> token]
CmdLine(text) == [t |-> "cmd", text |-> text, token |-> <<>>]
ChainLine_NoSignal(text, token) == CmdLine(text)

\* "<command>; tmux wait-for -S <token>" typed as one line
ChainLine(text, token) == [t |-> "chain", text |-> text, token |-> token]

\* the exit status of a command that ends by itself: `s` fails
Failing == {"s"}
ExitStatus(text) == IF text \in Failing THEN 1 ELSE 0

Join_And == "&&"

\* what stands between the command and the signal in format!("{}; tmux wait-for -S {}")
Join == ";"

\* the shell goes on to the signal after `;` whatever the status was, after
\* `&&` only when the command succeeded
RunsSignal(text) == Join = ";" \/ ExitStatus(text) = 0

NewPane(fg) == [fg |-> fg, q |-> <<>>, log |-> <<>>]

\* the panes a built window has, and what runs in them after the build
BuiltPanes(window, running) ==
  LET run(c) == IF running /\ c # NoCmd /\ Trim(c) # "" THEN Trim(c) ELSE Idle
  IN IF HasPanes(window)
     THEN IF Panes(window) = <<>> THEN <<NewPane(Idle)>>
          ELSE [k \in 1..Len(Panes(window)) |-> NewPane(run(Panes(window)[k]))]
     ELSE <<NewPane(run(SimpleCommand(window)))>>

BuiltSession(name, project, running) ==
  [name |-> name,
   windows |-> [k \in 1..Len(project.windows) |->
                  [name |-> project.windows[k].name,
                   panes |-> BuiltPanes(project.windows[k], running)]]]

SessionPos(server, name) ==
  LET at == {i \in DOMAIN server.sessions : server.sessions[i].name = name}
  IN IF at = {} THEN 0 ELSE CHOOSE i \in at : \A k \in at : i <= k

\* a window target resolves to the first window of that name
WindowPos(session, name) ==
  LET at == {i \in DOMAIN session.windows : session.windows[i].name = name}
  IN IF at = {} THEN 0 ELSE CHOOSE i \in at : \A k \in at : i <= k

PaneIndex(server, k) == server.pane_base + k - 1

\* the pane a target session:window.index names, <<0, 0, 0>> when there is none
Resolve(server, session_name, window_name, index) ==
  LET si == SessionPos(server, session_name) IN
  IF si = 0 THEN <<0, 0, 0>>
  ELSE LET wi == WindowPos(server.sessions[si], window_name) IN
    IF wi = 0 THEN <<0, 0, 0>>
    ELSE LET k == index - server.pane_base + 1 IN
      IF k \in DOMAIN server.sessions[si].windows[wi].panes THEN <<si, wi, k>> ELSE <<0, 0, 0>>

\* send-keys: the keys arrive at the pane's terminal
Deliver(server, at, item) ==
  [server EXCEPT !.sessions[at[1]].windows[at[2]].panes[at[3]] =
     [@ EXCEPT !.q = Append(@, item), !.log = Append(@, item)]]

\* the terminal of one pane hands over its oldest keystroke: C-c ends the
\* foreground process; a line is read by the shell once it is at its prompt.
\* signalled holds the wait-for channels that have been signalled so far
CanConsume(pane) ==
  /\ pane.q # <<>>
  /\ (pane.fg = Idle \/ Head(pane.q).t = "int")

Consume(server, at) ==
  LET pane == server.sessions[at[1]].windows[at[2]].panes[at[3]]
      item == Head(pane.q)
      fg == IF item.t = "int" THEN Idle
            ELSE IF item.t \in {"cmd", "chain"} THEN Trim(item.text)
            ELSE pane.fg
      \* the shell runs what follows the `;` once the command has ended
      rest == IF item.t = "chain" /\ RunsSignal(Trim(item.text))
              THEN <<SignalLine(item.token)>> \o Tail(pane.q) ELSE Tail(pane.q)
  IN [server EXCEPT
        !.sessions[at[1]].windows[at[2]].panes[at[3]] = [pane EXCEPT !.q = rest, !.fg = fg],
        !.signalled = IF item.t = "signal" THEN @ \cup {item.token} ELSE @]

AllPanes(server) ==
  {<<si, wi, k>> \in (1..3) \X (1..3) \X (1..3) :
     /\ si \in DOMAIN server.sessions
     /\ wi \in DOMAIN server.sessions[si].windows
     /\ k \in DOMAIN server.sessions[si].windows[wi].panes}

\* list-sessions -F "#{session_name}"
ListSessions(server) == [i \in DOMAIN server.sessions |-> server.sessions[i].name]

\* list-windows: the window names of a session
ListWindows(server, session_name) ==
  LET si == SessionPos(server, session_name) IN
  IF si = 0 THEN [ok |-> FALSE, names |-> <<>>]
  ELSE [ok |-> TRUE,
        names |-> [k \in DOMAIN server.sessions[si].windows |-> server.sessions[si].windows[k].name]]

\* list-panes -F "#{pane_index}\t#{pane_id}\t#{pane_current_command}\t#{pane_current_path}":
\* one line per pane, a line being its tab-separated fields
ListPanes(server, session_name, window_name) ==
  LET si == SessionPos(server, session_name)
      wi == IF si = 0 THEN 0 ELSE WindowPos(server.sessions[si], window_name)
  IN IF wi = 0 THEN [ok |-> FALSE, lines |-> <<>>]
     ELSE [ok |-> TRUE,
           lines |-> [k \in DOMAIN server.sessions[si].windows[wi].panes |->
                        <<PaneIndex(server, k), "%id", "zsh", "/">>]]

(***************************************************************************)
(* handoff_project_windows (src/src/tmux.rs 230-404)                       *)
(***************************************************************************)
Range(f) == {f[i] : i \in DOMAIN f}
NoError == <<>>
NoPid == -1

RunningProjectSessions(server, project_name) ==
  SelectSeq(ListSessions(server), LAMBDA name : IsProjectSession(project_name, name))

CommandsForWindow(windows, window_name) ==
  LET at == {i \in DOMAIN windows : windows[i].name = window_name} IN
  IF at = {} THEN <<>>
  ELSE LET window == windows[CHOOSE i \in at : \A k \in at : i <= k] IN
    IF SimpleCommand(window) # NoCmd
    THEN IF Trim(SimpleCommand(window)) = "" THEN <<>> ELSE <<Trim(SimpleCommand(window))>>
    ELSE LET given == SelectSeq(Panes(window), LAMBDA c : c # NoCmd)
             trimmed == [k \in DOMAIN given |-> Trim(given[k])]
         IN SelectSeq(trimmed, LAMBDA c : c # "")

ConfiguredWindows(project) ==
  LET all == [k \in DOMAIN project.handoff_windows |->
                [name |-> project.handoff_windows[k],
                 commands |-> CommandsForWindow(project.windows, project.handoff_windows[k])]]
  IN SelectSeq(all, LAMBDA w : w.commands # <<>>)

\* the index is the first field, the pid the fourth field after it
ParsePaneInfos(lines) ==
  LET infos == [k \in DOMAIN lines |->
                  [index |-> lines[k][1],
                   pid |-> IF Len(lines[k]) >= 5 THEN lines[k][5] ELSE NoPid]]
      rank(k) == Cardinality({j \in DOMAIN infos : infos[j].index < infos[k].index}) + 1
  IN [r \in DOMAIN infos |-> infos[CHOOSE k \in DOMAIN infos : rank(k) = r]]

HandoffStopToken(session_name, window_name, pane_index) ==
  <<"twig-handoff-stop", session_name, window_name, pane_index>>

HandoffStopSignal(stop_token) == SignalLine(stop_token)

IdleHandoff ==
  [pc |-> "idle", target |-> <<>>, client |-> "none", sessions |-> <<>>, configured |-> <<>>,
   si |-> 0, wi |-> 0, pi |-> 0, ci |-> 0, session_windows |-> <<>>, pane_infos |-> <<>>,
   first_error |-> NoError, result |-> "none", faults |-> 0, signals |-> <<>>]

Record(h, err) == IF h.first_error = NoError THEN [h EXCEPT !.first_error = err] ELSE h

\* the code after the loop over the sessions
Finish(h) ==
  [h EXCEPT !.pc = "done", !.client = "dropped",
            !.result = IF h.first_error = NoError THEN "ok" ELSE "err"]

\* the next iteration of `for session_name in sessions`
NextSession(h) ==
  IF h.si < Len(h.sessions) THEN [h EXCEPT !.pc = "list_windows", !.si = @ + 1] ELSE Finish(h)

NextWindow_NoSkip(h, from) ==
  IF from > Len(h.configured) THEN NextSession(h)
  ELSE [h EXCEPT !.pc = "list_panes", !.wi = from]

\* `for (window_name, commands) in &configured_windows` from position `from`
\* on: windows the session does not have are skipped
NextWindow(h, from) ==
  LET present == {k \in from..Len(h.configured) : h.configured[k].name \in Range(h.session_windows)}
  IN IF present = {} THEN NextSession(h)
     ELSE [h EXCEPT !.pc = "list_panes", !.wi = CHOOSE k \in present : \A j \in present : k <= j]

IsTarget_Always(h) == TRUE

IsTarget(h) == h.sessions[h.si] = h.target

\* the code after the loop over the panes
AfterPanes(h) ==
  IF IsTarget(h) /\ h.configured[h.wi].commands # <<>> /\ h.pane_infos # <<>>
  THEN [h EXCEPT !.pc = "replay", !.ci = 1]
  ELSE NextWindow(h, h.wi + 1)

\* after send_keys of the stop signal succeeded: the next pane, or the code
\* after the loop
AfterStop(h) ==
  IF h.pi < Len(h.pane_infos) THEN [h EXCEPT !.pc = "send_int", !.pi = @ + 1] ELSE AfterPanes(h)

HandoffSession(h) == h.sessions[h.si]
HandoffWindow(h) == h.configured[h.wi].name

HandoffStart_LeaksClient(target) ==
  /\ ho.pc = "idle"
  /\ LET sessions == RunningProjectSessions(srv, cfg.name)
         configured == ConfiguredWindows(cfg)
         h == [IdleHandoff EXCEPT !.target = target]
     IN ho' = IF cfg.handoff_windows = <<>> \/ sessions = <<>>
              THEN [h EXCEPT !.pc = "done", !.result = "ok"]
              ELSE IF configured = <<>>
              THEN [h EXCEPT !.pc = "done", !.result = "ok", !.client = "open"]
              ELSE [h EXCEPT !.pc = "list_windows", !.client = "open", !.sessions = sessions,
                             !.configured = configured, !.si = 1]
  /\ UNCHANGED <<ho2, fn, ks, cfg, srv, sb, wireVars>>

\* the early returns, connect, and the configured windows
HandoffStart(target) ==
  /\ ho.pc = "idle"
  /\ LET sessions == RunningProjectSessions(srv, cfg.name)
         configured == ConfiguredWindows(cfg)
         h == [IdleHandoff EXCEPT !.target = target]
     IN ho' = IF cfg.handoff_windows = <<>> \/ sessions = <<>>
              THEN [h EXCEPT !.pc = "done", !.result = "ok"]
              ELSE IF configured = <<>>
              THEN [h EXCEPT !.pc = "done", !.result = "ok", !.client = "dropped"]
              ELSE [h EXCEPT !.pc = "list_windows", !.client = "open", !.sessions = sessions,
                             !.configured = configured, !.si = 1]
  /\ UNCHANGED <<ho2, fn, ks, cfg, srv, sb, wireVars>>

\* a protocol call fails when its target does not exist, or when the server
\* answers with an error for another reason
Fails(h, found, fault) == ~found \/ fault
Fault(h, fault) == IF fault THEN [h EXCEPT !.faults = @ + 1] ELSE h

HandoffListWindows ==
  /\ ho.pc = "list_windows"
  /\ \E fault \in BOOLEAN :
       /\ fault => ho.faults < MaxFaults
       /\ LET r == ListWindows(srv, HandoffSession(ho))
              h == Fault(ho, fault)
          IN ho' = IF Fails(h, r.ok, fault)
                   THEN NextSession(Record(h, <<"list_windows", HandoffSession(h)>>))
                   ELSE NextWindow([h EXCEPT !.session_windows = r.names], 1)
  /\ UNCHANGED <<ho2, fn, ks, cfg, srv, sb, wireVars>>

HandoffListPanes ==
  /\ ho.pc = "list_panes"
  /\ \E fault \in BOOLEAN :
       /\ fault => ho.faults < MaxFaults
       /\ LET r == ListPanes(srv, HandoffSession(ho), HandoffWindow(ho))
              h == Fault(ho, fault)
              infos == ParsePaneInfos(r.lines)
          IN ho' = IF Fails(h, r.ok, fault)
                   THEN NextWindow(Record(h, <<"list_panes", HandoffSession(h), HandoffWindow(h)>>),
                                   h.wi + 1)
                   ELSE IF infos = <<>> THEN NextWindow(h, h.wi + 1)
                   ELSE [h EXCEPT !.pc = "send_int", !.pane_infos = infos, !.pi = 1]
  /\ UNCHANGED <<ho2, fn, ks, cfg, srv, sb, wireVars>>

\* send_keys(target, keys): the pane named by the target gets the keys
SendKeys(server, session_name, window_name, index, item, fault) ==
  LET at == Resolve(server, session_name, window_name, index)
  IN IF at = <<0, 0, 0>> \/ fault
     THEN [ok |-> FALSE, srv |-> server, err |-> <<"send_keys", session_name, window_name, index>>]
     ELSE [ok |-> TRUE, srv |-> Deliver(server, at, item), err |-> NoError]

\* if let Some(pid) = pane.pid: run-shell -b "kill -s SIGINT {pid}" is
\* requested, its result is dropped
SendPaneInterruptSignal(h) ==
  IF h.pane_infos[h.pi].pid # NoPid
  THEN [h EXCEPT !.signals = Append(@, <<h.pane_infos[h.pi].index, h.pane_infos[h.pi].pid>>)]
  ELSE h

\* the direct signal, then send_keys(&target, "C-c", false); an error of
\* send_keys ends the loop over the panes
HandoffSendInterrupt ==
  /\ ho.pc = "send_int"
  /\ \E fault \in BOOLEAN :
       /\ fault => ho.faults < MaxFaults
       /\ LET r == SendKeys(srv, HandoffSession(ho), HandoffWindow(ho),
                            ho.pane_infos[ho.pi].index, IntKey, fault)
              h == Fault(SendPaneInterruptSignal(ho), fault)
          IN /\ ho' = IF r.ok THEN [h EXCEPT !.pc = "send_stop"] ELSE AfterPanes(Record(h, r.err))
             /\ srv' = r.srv
  /\ UNCHANGED <<ho2, fn, ks, cfg, sb, wireVars>>

\* send_keys(&target, &stop_signal, true); an error ends the loop over the panes
HandoffSendStop ==
  /\ ho.pc = "send_stop"
  /\ \E fault \in BOOLEAN :
       /\ fault => ho.faults < MaxFaults
       /\ LET index == ho.pane_infos[ho.pi].index
              token == HandoffStopToken(HandoffSession(ho), HandoffWindow(ho), index)
              r == SendKeys(srv, HandoffSession(ho), HandoffWindow(ho), index,
                            HandoffStopSignal(token), fault)
              h == Fault(ho, fault)
          IN /\ ho' = IF r.ok THEN AfterStop(h) ELSE AfterPanes(Record(h, r.err))
             /\ srv' = r.srv
  /\ UNCHANGED <<ho2, fn, ks, cfg, sb, wireVars>>

AfterReplay_FirstOnly(h) == NextWindow(h, h.wi + 1)

\* after send_keys of a configured command succeeded
AfterReplay(h) ==
  IF h.ci < Len(h.configured[h.wi].commands) /\ h.ci < Len(h.pane_infos)
  THEN [h EXCEPT !.ci = @ + 1]
  ELSE NextWindow(h, h.wi + 1)

\* send_keys(&pane_target, command, true) in the target session
HandoffReplay ==
  /\ ho.pc = "replay"
  /\ \E fault \in BOOLEAN :
       /\ fault => ho.faults < MaxFaults
       /\ LET r == SendKeys(srv, HandoffSession(ho), HandoffWindow(ho),
                            ho.pane_infos[ho.ci].index,
                            CmdLine(ho.configured[ho.wi].commands[ho.ci]), fault)
              h == Fault(ho, fault)
          IN /\ ho' = IF r.ok THEN AfterReplay(h) ELSE NextWindow(Record(h, r.err), h.wi + 1)
             /\ srv' = r.srv
  /\ UNCHANGED <<ho2, fn, ks, cfg, sb, wireVars>>

\* a pane's terminal hands over one keystroke
PaneConsume ==
  /\ \E at \in AllPanes(srv) :
       /\ CanConsume(srv.sessions[at[1]].windows[at[2]].panes[at[3]])
       /\ srv' = Consume(srv, at)
  /\ UNCHANGED <<ho2, fn, ks, cfg, ho, sb, wireVars>>

(***************************************************************************)
(* The tmux server: the commands that build a session                      *)
(***************************************************************************)
NoItem == [t |-> "none", text |-> "", token |-> <<>>]
WaitItem(token) == [t |-> "wait", text |-> "wait-for", token |-> token]

\* one command line of the control connection
Call(op, session, window, arg, index, item) ==
  [op |-> op, session |-> session, window |-> window, arg |-> arg, index |-> index,
   item |-> item]

\* a target session:window without a pane index names the window's active
\* pane: the pane the last split made
ActivePane(server, session_name, window_name) ==
  LET si == SessionPos(server, session_name)
      wi == IF si = 0 THEN 0 ELSE WindowPos(server.sessions[si], window_name)
  IN IF wi = 0 THEN <<0, 0, 0>> ELSE <<si, wi, Len(server.sessions[si].windows[wi].panes)>>

\* what the server does with one command: [ok, srv]
Apply(server, call) ==
  LET si == SessionPos(server, call.session)
      wi == IF si = 0 THEN 0 ELSE WindowPos(server.sessions[si], call.window)
      fail == [ok |-> FALSE, srv |-> server]
      done(next) == [ok |-> TRUE, srv |-> next]
      window(name) == [name |-> name, panes |-> <<NewPane(Idle)>>]
  IN IF call.op = "new-session"
       THEN IF si # 0 THEN fail
            ELSE done([server EXCEPT !.sessions =
                         Append(@, [name |-> call.session, windows |-> <<window(call.window)>>])])
     ELSE IF call.op = "set-environment" THEN IF si = 0 THEN fail ELSE done(server)
     ELSE IF call.op = "new-window"
       THEN IF si = 0 THEN fail
            ELSE done([server EXCEPT !.sessions[si].windows = Append(@, window(call.window))])
     ELSE IF wi = 0 THEN fail
     ELSE IF call.op = "rename-window"
       THEN done([server EXCEPT !.sessions[si].windows[wi].name = call.arg])
     ELSE IF call.op = "split-window"
       THEN done([server EXCEPT !.sessions[si].windows[wi].panes = Append(@, NewPane(Idle))])
     ELSE IF call.op = "send-keys"
       THEN done(Deliver(server, ActivePane(server, call.session, call.window), call.item))
     ELSE IF call.op = "select-pane"
       THEN IF Resolve(server, call.session, call.window, call.index) = <<0, 0, 0>>
            THEN fail ELSE done(server)
     ELSE done(server)

\* wait-for <token> returns once the channel has been signalled
WaitFor(server, token) == token \in server.signalled

(***************************************************************************)
(* SessionBuilder::start_with_control (src/src/tmux.rs 440-640)            *)
(***************************************************************************)
SetupWindowName == "setup-twig"
NoBranch == <<>>
Finite == {"i", "s"}            \* commands that end by themselves
PostCreateLists ==
  {<<>>} \cup UNION {[1..n -> Finite \cup {Blank}] : n \in 1..MaxPost}
         \cup UNION {[1..n -> {"i", ""}] : n \in 1..MaxPost}

RECURSIVE Flatten(_)
Flatten(seqs) == IF seqs = <<>> THEN <<>> ELSE Head(seqs) \o Flatten(Tail(seqs))

UniqueWaitToken(session, index, now) == <<"twig-post-create", session, index, now>>

IdleBuilder ==
  [pc |-> "idle", session_name |-> <<>>, windows |-> <<>>, worktree_branch |-> NoBranch,
   post_create_commands |-> <<>>, client |-> "none", i |-> 0, token |-> <<>>, todo |-> <<>>,
   sent |-> <<>>, now |-> 0, result |-> "none", faults |-> 0]

\* SessionBuilder::new(project), with_session_name, with_worktree
NewBuilder(project, post_create, branch) ==
  [IdleBuilder EXCEPT
     !.session_name = IF branch = NoBranch THEN project.name
                      ELSE WorktreeSessionName(project.name, branch),
     !.windows = project.windows,
     !.worktree_branch = branch,
     !.post_create_commands = post_create]

CreateSessionCalls(b) ==
  <<Call("new-session", b.session_name, SetupWindowName, "", None, NoItem),
    Call("set-environment", b.session_name, "", "TWIG_PROJECT", None, NoItem)>>
  \o (IF b.worktree_branch # NoBranch
      THEN <<Call("set-environment", b.session_name, "", "TWIG_WORKTREE", None, NoItem)>>
      ELSE <<>>)

SplitArg_SideBySide(window) == "-h"

\* the direction of every split of a window
SplitArg(window) == IF window.layout = "main-horizontal" THEN "-v" ELSE "-h"

SetupWindowCalls(session, window_name, window, base_index) ==
  LET keys(cmd) == IF cmd # NoCmd
                   THEN <<Call("send-keys", session, window_name, "", None, CmdLine(cmd))>>
                   ELSE <<>>
      split_arg == SplitArg(window)
      panes == Panes(window)
  IN IF HasPanes(window)
     THEN (IF panes # <<>> THEN keys(panes[1]) ELSE <<>>)
          \o Flatten([k \in 1..(IF panes = <<>> THEN 0 ELSE Len(panes) - 1) |->
                        <<Call("split-window", session, window_name, split_arg, None, NoItem)>>
                        \o keys(panes[k + 1])])
          \o (IF window.layout # NoCmd
              THEN <<Call("select-layout", session, window_name, window.layout, None, NoItem)>>
              ELSE <<>>)
          \o <<Call("select-pane", session, window_name, "", base_index, NoItem)>>
     ELSE keys(SimpleCommand(window))

FirstWindowName_KeepsSetup(b) == SetupWindowName

\* the name the setup window gets: the first configured window's, or "shell"
FirstWindowName(b) == IF b.windows = <<>> THEN "shell" ELSE b.windows[1].name

SetupWindowsCalls(b, base_index) ==
  LET first_window_name == FirstWindowName(b)
  IN <<Call("rename-window", b.session_name, SetupWindowName, first_window_name, None, NoItem)>>
     \o (IF b.windows = <<>> THEN <<>>
         ELSE SetupWindowCalls(b.session_name, first_window_name, b.windows[1], base_index))
     \o Flatten([k \in 1..(IF b.windows = <<>> THEN 0 ELSE Len(b.windows) - 1) |->
                   <<Call("new-window", b.session_name, b.windows[k + 1].name, "", None, NoItem)>>
                   \o SetupWindowCalls(b.session_name, b.windows[k + 1].name, b.windows[k + 1],
                                       base_index)])
     \o <<Call("select-window", b.session_name, first_window_name, "", None, NoItem)>>

\* a protocol call: the line is written; the server carries it out unless
\* the call fails
Issue(b, server, call, fault) ==
  LET r == Apply(server, call)
  IN [ok |-> r.ok /\ ~fault,
      srv |-> IF fault THEN server ELSE r.srv,
      sb |-> [Fault(b, fault) EXCEPT !.sent = Append(@, call)]]

BuilderFails_Undoes(b) ==
  [b EXCEPT !.pc = "done", !.result = "err", !.client = "dropped", !.todo = <<>>,
            !.sent = Append(@, Call("kill-session", b.session_name, "", "", None, NoItem))]

\* `?`: the error is returned, the client is dropped
BuilderFails(b) ==
  [b EXCEPT !.pc = "done", !.result = "err", !.client = "dropped", !.todo = <<>>]

BuilderReturns(b) ==
  [b EXCEPT !.pc = "done", !.result = "ok", !.client = "dropped", !.todo = <<>>]

\* create_session_with_control, then setup_windows_with_control, on one
\* connection and with nothing in between
SeparateFlowCalls(b, base_index) == CreateSessionCalls(b) \o SetupWindowsCalls(b, base_index)

\* the server after a list of commands, up to the first that fails
RECURSIVE Run(_, _)
Run(server, todo) ==
  IF todo = <<>> THEN [ok |-> TRUE, srv |-> server]
  ELSE LET r == Apply(server, Head(todo))
       IN IF r.ok THEN Run(r.srv, Tail(todo)) ELSE [ok |-> FALSE, srv |-> r.srv]

SetupWindows_NoSelect(b, server) ==
  LET todo == SetupWindowsCalls(b, server.base_index)
  IN [b EXCEPT !.pc = "setup", !.todo = SubSeq(todo, 1, Len(todo) - 1)]

\* setup_windows_with_control
SetupWindows(b, server) ==
  [b EXCEPT !.pc = "setup", !.todo = SetupWindowsCalls(b, server.base_index)]

NextPostCreate_NoSkip(b, server, from) ==
  IF from > Len(b.post_create_commands) THEN SetupWindows(b, server)
  ELSE [b EXCEPT !.pc = "post_create", !.i = from]

\* the loop of run_post_create_with_control from position `from` on: empty
\* commands are skipped
NextPostCreate(b, server, from) ==
  LET live == {k \in from..Len(b.post_create_commands) : Trim(b.post_create_commands[k]) # ""}
  IN IF live = {} THEN SetupWindows(b, server)
     ELSE [b EXCEPT !.pc = "post_create", !.i = CHOOSE k \in live : \A j \in live : k <= j]

StartWithControl ==
  /\ sb.pc = "idle"
  /\ sb.session_name # <<>>
  /\ \E fault \in BOOLEAN :
       /\ fault => sb.faults < MaxFaults
       /\ sb' = IF fault THEN [Fault(sb, fault) EXCEPT !.pc = "done", !.result = "err"]
                ELSE [sb EXCEPT !.pc = "create", !.client = "open",
                                !.todo = CreateSessionCalls(sb)]
  /\ UNCHANGED <<ho2, fn, ks, cfg, srv, ho, wireVars>>

CreateSessionStep_SkipsPostCreate ==
  /\ sb.pc = "create"
  /\ \E fault \in BOOLEAN :
       /\ fault => sb.faults < MaxFaults
       /\ LET r == Issue(sb, srv, Head(sb.todo), fault)
              b == [r.sb EXCEPT !.todo = Tail(@)]
          IN /\ sb' = IF ~r.ok THEN BuilderFails(b)
                      ELSE IF b.todo = <<>> THEN SetupWindows(b, r.srv)
                      ELSE b
             /\ srv' = r.srv
  /\ UNCHANGED <<ho2, fn, ks, cfg, ho, wireVars>>

\* create_session_with_control, one protocol call at a time
CreateSessionStep ==
  /\ sb.pc = "create"
  /\ \E fault \in BOOLEAN :
       /\ fault => sb.faults < MaxFaults
       /\ LET r == Issue(sb, srv, Head(sb.todo), fault)
              b == [r.sb EXCEPT !.todo = Tail(@)]
          IN /\ sb' = IF ~r.ok THEN BuilderFails(b)
                      ELSE IF b.todo = <<>> THEN NextPostCreate(b, r.srv, 1)
                      ELSE b
             /\ srv' = r.srv
  /\ UNCHANGED <<ho2, fn, ks, cfg, ho, wireVars>>

PostCreateAfterSend_NoWait(b, server) == NextPostCreate(b, server, b.i + 1)

\* after send_keys succeeded: client.wait_for(&token)
PostCreateAfterSend(b, server) == [b EXCEPT !.pc = "wait"]

\* token, signal, client.send_keys(&target, &signal, true)?
PostCreateSend ==
  /\ sb.pc = "post_create"
  /\ \E fault \in BOOLEAN, tick \in {0, 1} :
       /\ fault => sb.faults < MaxFaults
       /\ LET now == sb.now + tick
              token == UniqueWaitToken(sb.session_name, sb.i - 1, now)
              signal == ChainLine(Trim(sb.post_create_commands[sb.i]), token)
              call == Call("send-keys", sb.session_name, SetupWindowName, "", None, signal)
              r == Issue([sb EXCEPT !.now = now, !.token = token], srv, call, fault)
          IN /\ sb' = IF r.ok THEN PostCreateAfterSend(r.sb, r.srv) ELSE BuilderFails(r.sb)
             /\ srv' = r.srv
  /\ UNCHANGED <<ho2, fn, ks, cfg, ho, wireVars>>

\* wait_for: the wait-for line is written
PostCreateWait ==
  /\ sb.pc = "wait"
  /\ sb' = [sb EXCEPT !.pc = "waiting",
                      !.sent = Append(@, Call("wait-for", <<>>, "", "", None, WaitItem(sb.token)))]
  /\ UNCHANGED <<ho2, fn, ks, cfg, srv, ho, wireVars>>

\* wait_for returns: the signal has fired, or the connection has failed
PostCreateWaitReturns ==
  /\ sb.pc = "waiting"
  /\ \E fault \in BOOLEAN :
       /\ fault => sb.faults < MaxFaults
       /\ ~fault => WaitFor(srv, sb.token)
       /\ sb' = IF fault THEN BuilderFails(Fault(sb, fault))
                ELSE NextPostCreate(sb, srv, sb.i + 1)
  /\ UNCHANGED <<ho2, fn, ks, cfg, srv, ho, wireVars>>

\* setup_windows_with_control, one protocol call at a time
SetupWindowsStep ==
  /\ sb.pc = "setup"
  /\ \E fault \in BOOLEAN :
       /\ fault => sb.faults < MaxFaults
       /\ LET r == Issue(sb, srv, Head(sb.todo), fault)
              b == [r.sb EXCEPT !.todo = Tail(@)]
          IN /\ sb' = IF ~r.ok THEN BuilderFails(b)
                      ELSE IF b.todo = <<>> THEN BuilderReturns(b)
                      ELSE b
             /\ srv' = r.srv
  /\ UNCHANGED <<ho2, fn, ks, cfg, ho, wireVars>>

\* the foreground command of a pane ends by itself
PaneExit ==
  /\ \E at \in AllPanes(srv) :
       /\ srv.sessions[at[1]].windows[at[2]].panes[at[3]].fg \in Finite
       /\ srv' = [srv EXCEPT !.sessions[at[1]].windows[at[2]].panes[at[3]].fg = Idle]
  /\ UNCHANGED <<ho2, fn, ks, cfg, ho, sb, wireVars>>

\* the project files a session is built from: those of the handoff, and
\* no window at all, three windows the second of them stacked, a window of
\* three panes with a named layout, windows with one pane and with an empty
\* pane list
BuildProjects ==
  LET shell == SimpleWindow("shell", NoCmd)
      mk(ws) == [name |-> ProjectName, windows |-> ws, handoff_windows |-> <<>>]
  IN Projects \cup
     { mk(<<>>),
       mk(<<shell, ComplexWindow("editor", "main-horizontal", <<"vim", NoCmd>>),
            SimpleWindow("logs", "tail")>>),
       mk(<<ComplexWindow("editor", "tiled", <<"vim", NoCmd, "tail">>)>>),
       mk(<<ComplexWindow("one", NoCmd, <<"vim">>), ComplexWindow("none", "tiled", <<>>)>>) }

InitSetup ==
  /\ cfg \in BuildProjects
  /\ \E pane_base, base_index \in {0, 1} :
       srv = [sessions |-> <<>>, signalled |-> {}, pane_base |-> pane_base,
              base_index |-> base_index]
  /\ ho = IdleHandoff
  /\ \E post_create \in PostCreateLists, branch \in {NoBranch, <<"a">>} :
       sb = NewBuilder(cfg, post_create, branch)
  /\ fn = NoCall
  /\ ks = IdleKill
  /\ ho2 = IdleHandoff

NextSetup ==
  \/ StartWithControl
  \/ CreateSessionStep
  \/ PostCreateSend
  \/ PostCreateWait
  \/ PostCreateWaitReturns
  \/ SetupWindowsStep
  \/ PaneConsume
  \/ PaneExit

(***************************************************************************)
(* Initial states and next-state relations                                 *)
(***************************************************************************)
\* the projects handed off: also one that declares no handoff window and one
\* whose handoff window carries no command
HandoffProjects ==
  LET shell == SimpleWindow("shell", NoCmd)
      mk(ws, hw) == [name |-> ProjectName, windows |-> ws, handoff_windows |-> hw]
  IN Projects \cup { mk(<<shell, SimpleWindow("server", "run")>>, <<>>),
                     mk(<<shell, SimpleWindow("server", NoCmd)>>, <<"server">>),
                     mk(<<shell, ComplexWindow("server", "tiled", <<"run", "job">>)>>,
                        <<"server">>) }

\* a session whose last window was closed since it was built
WithoutLastWindow(project) ==
  [project EXCEPT !.windows = SubSeq(@, 1, Len(@) - 1)]

\* a session in which the last pane of every window with several panes was
\* closed since it was built
WithoutLastPanes(session) ==
  [session EXCEPT
     !.windows = [k \in DOMAIN @ |->
                    [@[k] EXCEPT !.panes = IF Len(@) >= 2 THEN SubSeq(@, 1, Len(@) - 1) ELSE @]]]

InitHandoff ==
  /\ cfg \in HandoffProjects
  /\ \E main_runs, worktree_runs, closed, fewer \in BOOLEAN, base \in {0, 1} :
       srv = [sessions |-> <<IF fewer
                             THEN WithoutLastPanes(BuiltSession(ProjectName, cfg, main_runs))
                             ELSE BuiltSession(ProjectName, cfg, main_runs),
                             BuiltSession(WorktreeSessionName(ProjectName, <<"a">>),
                                          IF closed THEN WithoutLastWindow(cfg) ELSE cfg,
                                          worktree_runs),
                             BuiltSession(WorktreeSessionName(<<"q">>, <<"a">>), cfg, TRUE)>>,
              signalled |-> {},
              pane_base |-> base,
              base_index |-> 0]
  /\ ho = IdleHandoff
  /\ sb = IdleBuilder
  /\ fn = NoCall
  /\ ks = IdleKill
  /\ ho2 = IdleHandoff

NextHandoff ==
  \/ \E target \in Range(RunningProjectSessions(srv, cfg.name)) : HandoffStart(target)
  \/ HandoffListWindows
  \/ HandoffListPanes
  \/ HandoffSendInterrupt
  \/ HandoffSendStop
  \/ HandoffReplay
  \/ PaneConsume

(***************************************************************************)
(* kill_session_with_timeout (src/src/tmux.rs 642-658)                     *)
(***************************************************************************)
\* has-session -t name
SessionExists(server, name) == SessionPos(server, name) # 0

\* the server without the session of that name
RemoveSession(server, name) ==
  [server EXCEPT !.sessions = SelectSeq(@, LAMBDA session : session.name # name)]

\* a return of kill_session_with_timeout: the client goes out of scope
KillReturns(k, result) == [k EXCEPT !.pc = "done", !.result = result, !.client = "dropped"]

\* ControlClient::connect(None)?
KillStart(name) ==
  /\ ks.pc = "idle"
  /\ \E fault \in BOOLEAN :
       ks' = IF fault THEN [IdleKill EXCEPT !.name = name, !.pc = "done", !.result = "err"]
             ELSE [IdleKill EXCEPT !.name = name, !.pc = "kill", !.client = "open"]
  /\ UNCHANGED <<ho2, fn, srv, cfg, ho, sb, wireVars>>

\* client.kill_session(name)?; Instant::now(). The server destroys the
\* session while it answers, or answers and destroys it later, or never
KillRequest ==
  /\ ks.pc = "kill"
  /\ \E fault, at_once \in BOOLEAN :
       LET k == [ks EXCEPT !.requests = @ + 1] IN
       IF fault \/ ~SessionExists(srv, ks.name)
       THEN /\ ks' = KillReturns(k, "err")
            /\ srv' = srv
       ELSE /\ ks' = [k EXCEPT !.pc = "poll", !.elapsed = 0]
            /\ srv' = IF at_once THEN RemoveSession(srv, ks.name) ELSE srv
  /\ UNCHANGED <<ho2, fn, cfg, ho, sb, wireVars>>

KillPoll_NoTimeout ==
  /\ ks.pc = "poll"
  /\ \E fault \in BOOLEAN :
       LET exists == SessionExists(srv, ks.name)
           k == [ks EXCEPT !.polls = Append(@, exists)]
       IN ks' = IF fault THEN KillReturns(ks, "err")
                ELSE IF ~exists THEN KillReturns(k, "ok")
                ELSE [k EXCEPT !.pc = "sleep"]
  /\ UNCHANGED <<ho2, fn, srv, cfg, ho, sb, wireVars>>

\* one turn of the loop up to the sleep: session_exists(name)?, then
\* start.elapsed() >= timeout
KillPoll ==
  /\ ks.pc = "poll"
  /\ \E fault \in BOOLEAN :
       LET exists == SessionExists(srv, ks.name)
           k == [ks EXCEPT !.polls = Append(@, exists)]
       IN ks' = IF fault THEN KillReturns(ks, "err")
                ELSE IF ~exists THEN KillReturns(k, "ok")
                ELSE IF ks.elapsed >= MaxWait THEN KillReturns(k, "timeout")
                ELSE [k EXCEPT !.pc = "sleep"]
  /\ UNCHANGED <<ho2, fn, srv, cfg, ho, sb, wireVars>>

\* sleep(Duration::from_millis(200)): one polling interval passes
KillSleep ==
  /\ ks.pc = "sleep"
  /\ ks.elapsed <= MaxWait
  /\ ks' = [ks EXCEPT !.pc = "poll", !.elapsed = @ + 1]
  /\ UNCHANGED <<ho2, fn, srv, cfg, ho, sb, wireVars>>

\* the session that was asked to stop goes away
SessionDies ==
  /\ ks.pc \in {"poll", "sleep"}
  /\ SessionExists(srv, ks.name)
  /\ srv' = RemoveSession(srv, ks.name)
  /\ UNCHANGED <<ho2, fn, ks, cfg, ho, sb, wireVars>>

KillSteps == KillRequest \/ KillPoll \/ KillSleep

\* the sessions asked to stop: the running ones and one that is not running
KillNames ==
  {ProjectName, WorktreeSessionName(ProjectName, <<"a">>), WorktreeSessionName(ProjectName, <<"b">>)}

NextKill ==
  \/ \E name \in KillNames : KillStart(name)
  \/ KillRequest
  \/ KillPoll
  \/ KillSleep
  \/ SessionDies

\* the handoff command is run once more after the invocation before it has
\* returned success; no pane has been typed into more than MaxLog times
HandoffAgain ==
  /\ ho.pc = "done"
  /\ ho.result = "ok"
  /\ \A at \in AllPanes(srv) :
       Len(srv.sessions[at[1]].windows[at[2]].panes[at[3]].log) <= MaxLog
  /\ ho' = IdleHandoff
  /\ UNCHANGED <<ho2, fn, ks, cfg, srv, sb, wireVars>>

NextRepeat ==
  \/ \E target \in Range(RunningProjectSessions(srv, cfg.name)) : HandoffStart(target)
  \/ HandoffListWindows
  \/ HandoffListPanes
  \/ HandoffSendInterrupt
  \/ HandoffSendStop
  \/ HandoffReplay
  \/ PaneConsume
  \/ HandoffAgain

(***************************************************************************)
(* Actions of the line protocol                                            *)
(***************************************************************************)
InitWire ==
  /\ cl = IdleClient
  /\ ret = NoRet
  /\ obs = FreshObs
  /\ tm = InitTm
  /\ calls = [n |-> 0, kind |-> "none", first |-> 0, prev |-> "none"]

\* the line protocol alone: no project is loaded, no server state is looked at
NoProject == [name |-> <<>>, windows |-> <<>>, handoff_windows |-> <<>>]
NoServer == [sessions |-> <<>>, signalled |-> {}, pane_base |-> 0, base_index |-> 0]

InitProtocol ==
  /\ InitWire
  /\ cfg = NoProject
  /\ srv = NoServer
  /\ ho = IdleHandoff
  /\ sb = IdleBuilder
  /\ fn = NoCall
  /\ ks = IdleKill
  /\ ho2 = IdleHandoff

\* command(): the command line is written and flushed, the locals are fresh
CallCommand ==
  /\ cl.pc = "idle"
  /\ calls.n < MaxCalls
  /\ cl' = [IdleClient EXCEPT !.pc = "command"]
  /\ ret' = NoRet
  /\ obs' = FreshObs
  /\ tm' = [tm EXCEPT !.blocks = Unanswered(tm) \o <<NewBlock("cmd")>>, !.notifs = 0]
  /\ calls' = [n |-> calls.n + 1, kind |-> "command", first |-> Len(Unanswered(tm)) + 1, prev |-> ret.status]
  /\ UNCHANGED <<ho2, fn, ks, handoffVars, sb>>

\* command_with_output(): the command and the sentinel command are written together
CallCommandWithOutput ==
  /\ cl.pc = "idle"
  /\ calls.n < MaxCalls
  /\ cl' = [IdleClient EXCEPT !.pc = "cwo"]
  /\ ret' = NoRet
  /\ obs' = FreshObs
  /\ tm' = [tm EXCEPT !.blocks = Unanswered(tm) \o <<NewBlock("cmd"), NewBlock("sentinel")>>,
                      !.notifs = 0]
  /\ calls' = [n |-> calls.n + 1, kind |-> "cwo", first |-> Len(Unanswered(tm)) + 1, prev |-> ret.status]
  /\ UNCHANGED <<ho2, fn, ks, handoffVars, sb>>

\* the running call reads `line`
ClientRead(line) ==
  LET s == IF cl.pc = "command" THEN CommandStep(cl, line) ELSE CwoStep(cl, line)
  IN /\ cl' = s.cl
     /\ ret' = s.ret
     /\ obs' = Observe(line)

WireLines ==
  {MkLine(t, i, "") : t \in {"begin", "end"}, i \in {0, 1, MissingId, NotANumber}}
  \cup {MkLine("error", 0, ""), ExitLine, EofLine, NotifLine}
  \cup {MkLine("out", None, x) : x \in {"a", Sentinel}}

WireCommandRead ==
  /\ cl.pc = "command"
  /\ obs.nread < MaxRead
  /\ \E line \in WireLines : ClientRead(line)
  /\ UNCHANGED <<ho2, fn, ks, tm, calls, handoffVars, sb>>

WireCwoRead ==
  /\ cl.pc = "cwo"
  /\ obs.nread < MaxRead
  /\ \E line \in WireLines : ClientRead(line)
  /\ UNCHANGED <<ho2, fn, ks, tm, calls, handoffVars, sb>>

ProtoCommandRead ==
  /\ cl.pc = "command"
  /\ \E line \in TmuxLines(tm) : ClientRead(line) /\ tm' = TmuxEmit(tm, line)
  /\ UNCHANGED <<ho2, fn, ks, calls, handoffVars, sb>>

ProtoCwoRead ==
  /\ cl.pc = "cwo"
  /\ \E line \in TmuxLines(tm) : ClientRead(line) /\ tm' = TmuxEmit(tm, line)
  /\ UNCHANGED <<ho2, fn, ks, calls, handoffVars, sb>>

NextWire == CallCommand \/ CallCommandWithOutput \/ WireCommandRead \/ WireCwoRead
NextProto == CallCommand \/ CallCommandWithOutput \/ ProtoCommandRead \/ ProtoCwoRead

SpecWire == InitProtocol /\ [][NextWire]_vars
SpecProto == InitProtocol /\ [][NextProto]_vars
InitCoordinator == InitWire /\ InitHandoff
SpecHandoff == InitCoordinator /\ [][NextHandoff]_vars
\* repeated handoffs of the project with one simple handoff window
InitRepeat ==
  /\ InitWire
  /\ InitHandoff
  /\ cfg = [name |-> ProjectName,
            windows |-> <<SimpleWindow("shell", NoCmd), SimpleWindow("server", "run")>>,
            handoff_windows |-> <<"server">>]
SpecRepeat == InitRepeat /\ [][NextRepeat]_vars
\* two invocations of the handoff, each a process of its own with its own
\* connection: the scheduler runs one of them at a time
HandoffSwitch ==
  /\ ho # ho2
  /\ ho' = ho2
  /\ ho2' = ho
  /\ UNCHANGED <<fn, ks, cfg, srv, sb, wireVars>>
NextConcurrent ==
  \/ \E target \in Range(RunningProjectSessions(srv, cfg.name)) \ {ho2.target} :
       HandoffStart(target)
  \/ HandoffListWindows
  \/ HandoffListPanes
  \/ HandoffSendInterrupt
  \/ HandoffSendStop
  \/ HandoffReplay
  \/ PaneConsume
  \/ HandoffSwitch
\* the project with one simple handoff window; the main session and the
\* worktree session both have the window
InitConcurrent ==
  /\ cfg = [name |-> ProjectName,
            windows |-> <<SimpleWindow("shell", NoCmd), SimpleWindow("server", "run")>>,
            handoff_windows |-> <<"server">>]
  /\ InitWire
  /\ InitHandoff
  /\ srv.pane_base = 0
  /\ \A i \in DOMAIN srv.sessions : Len(srv.sessions[i].windows) = 2
SpecConcurrent == InitConcurrent /\ [][NextConcurrent]_vars
\* the calls the killer makes return, and its sleep ends
SpecKill == InitCoordinator /\ [][NextKill]_vars /\ WF_vars(KillSteps)
InitBuilder == InitWire /\ InitSetup
SpecSetup == InitBuilder /\ [][NextSetup]_vars
\* one project over time: its main session runs, its worktree session is
\* built, handoffs are invoked; one invocation at a time
InitProject ==
  /\ cfg = [name |-> ProjectName,
            windows |-> <<SimpleWindow("shell", NoCmd), SimpleWindow("server", "run")>>,
            handoff_windows |-> <<"server">>]
  /\ InitWire
  /\ \E base \in {0, 1} :
       srv = [sessions |-> <<BuiltSession(ProjectName, cfg, TRUE)>>, signalled |-> {},
              pane_base |-> base, base_index |-> base]
  /\ ho = IdleHandoff
  /\ sb = NewBuilder(cfg, <<>>, <<"a">>)
  /\ fn = NoCall
  /\ ks = IdleKill
  /\ ho2 = IdleHandoff
NextProject ==
  \/ ho.pc \in {"idle", "done"} /\ StartWithControl
  \/ CreateSessionStep
  \/ SetupWindowsStep
  \/ /\ sb.pc \in {"idle", "done"}
     /\ \E target \in Range(RunningProjectSessions(srv, cfg.name)) : HandoffStart(target)
  \/ HandoffListWindows
  \/ HandoffListPanes
  \/ HandoffSendInterrupt
  \/ HandoffSendStop
  \/ HandoffReplay
  \/ PaneConsume
SpecProject == InitProject /\ [][NextProject]_vars
\* projects in which two windows carry one name: the generated template
\* (cli/new.rs 46-74, its windows up to the second `shell`), and namesakes
\* that have commands and panes
NamesakeProjects ==
  LET shell == SimpleWindow("shell", NoCmd)
      mk(ws) == [name |-> ProjectName, windows |-> ws, handoff_windows |-> <<>>]
  IN { mk(<<ComplexWindow("editor", NoCmd, <<"vim">>), shell, shell>>),
       mk(<<SimpleWindow("shell", "run"), SimpleWindow("shell", "job")>>),
       mk(<<ComplexWindow("shell", "tiled", <<"vim", "tail">>), SimpleWindow("shell", "run")>>) }
InitNamesakes ==
  /\ cfg \in NamesakeProjects
  /\ InitWire
  /\ \E base \in {0, 1} :
       srv = [sessions |-> <<>>, signalled |-> {}, pane_base |-> base, base_index |-> base]
  /\ ho = IdleHandoff
  /\ \E branch \in {NoBranch, <<"a">>} : sb = NewBuilder(cfg, <<>>, branch)
  /\ fn = NoCall
  /\ ks = IdleKill
  /\ ho2 = IdleHandoff
NextNamesakes ==
  \/ StartWithControl
  \/ CreateSessionStep
  \/ SetupWindowsStep
  \/ PaneConsume
SpecNamesakes == InitNamesakes /\ [][NextNamesakes]_vars
\* the build of the project without windows, every list of setup commands
InitPostCreate ==
  /\ cfg = [name |-> ProjectName, windows |-> <<>>, handoff_windows |-> <<>>]
  /\ InitWire
  /\ InitSetup
  /\ sb.worktree_branch = NoBranch
  /\ srv.base_index = 0
\* a protocol call whose answer has arrived returns
BuilderProgress ==
  /\ (CreateSessionStep \/ PostCreateSend \/ PostCreateWait \/ PostCreateWaitReturns
       \/ SetupWindowsStep)
  /\ sb'.faults = sb.faults
\* the calls return, the shell of a pane reads its input, a command that
\* ends by itself ends
SpecPostCreate ==
  InitPostCreate /\ [][NextSetup]_vars
    /\ WF_vars(BuilderProgress) /\ WF_vars(PaneConsume) /\ WF_vars(PaneExit)

(***************************************************************************)
(* Claims about the line protocol                                          *)
(***************************************************************************)
Returned(kind) == calls.kind = kind /\ cl.pc = "idle"
NonPct(out) == SelectSeq(out, LAMBDA x : x \notin PctTexts)
HasSentinel(lines) == \E i \in DOMAIN lines : lines[i] = Sentinel
Primary == tm.blocks[calls.first]       \* the block of the call's command line
SentinelBlock == tm.blocks[calls.first + 1]

\* C1: every call of command that returns success returns the output lines of
\* the response block of the command line that call wrote (lines that begin
\* with '%' aside), however many notification lines lie between the blocks.
C1_ResponsesMatchCommands ==
  (Returned("command") /\ ret.status = "ok") =>
    /\ Primary.state = "end"
    /\ ret.lines = NonPct(Primary.out)

C1_Witness ==
  /\ calls.n = 2
  /\ Returned("command")
  /\ calls.prev = "ok"
  /\ ret = RetOk(<<"b", "a">>)
  /\ tm.notifs = MaxNotif

\* C6 (as claimed): once command_with_output has read an error marker, the
\* call returns an error and that error is the first one observed.
C6_FirstErrorIsReturned ==
  (Returned("cwo") /\ obs.firstErr.kind = "protocol") =>
    (ret.status = "err" /\ ret.err = obs.firstErr)

\* C7: a successful command_with_output returns the primary block's output
\* and never the sentinel; with both blocks closed by %end and no output in the
\* primary block it returns the empty sequence with success.
C7_SentinelNeverReturned ==
  /\ ~HasSentinel(cl.output) /\ ~HasSentinel(ret.lines)
  /\ calls.kind = "cwo" =>
       /\ (cl.pc = "idle" /\ ret.status = "ok") => ret.lines = NonPct(Primary.out)
       /\ (Primary.state = "end" /\ SentinelBlock.state = "end" /\ Primary.out = <<>>)
            => (cl.pc = "idle" /\ ret = RetOk(<<>>))

C7_Witness ==
  /\ Returned("cwo")
  /\ ret = RetOk(<<>>)
  /\ Primary.out = <<>>
  /\ SentinelBlock.out = <<Sentinel>>

\* C8: a command call that reads a %error marker returns at once, with an
\* error that carries the marker line and with no output line.
C8_ErrorMarkerFailsCommand ==
  (calls.kind = "command" /\ obs.last.t = "error") =>
    /\ cl.pc = "idle"
    /\ ret.status = "err"
    /\ ret.err = MkErr("protocol", obs.last)
    /\ ret.lines = <<>>

C8_Witness ==
  /\ Returned("command")
  /\ obs.last.t = "error"
  /\ obs.kept
  /\ ret.err.line = obs.last

\* C9: command returns success only when the line it read last is a %end
\* whose id is the id of a %begin read earlier in the call; a call that reads
\* the end of the stream or %exit returns a connection error and no line.
C9_SuccessNeedsFraming ==
  calls.kind = "command" =>
    /\ (cl.pc = "idle" /\ ret.status = "ok") =>
         (obs.last.t = "end" /\ obs.last.id \in obs.begun)
    /\ obs.last.t \in {"eof", "exit"} =>
         /\ cl.pc = "idle"
         /\ ret.status = "err"
         /\ ret.err.kind \in {"closed", "exited"}
         /\ ret.lines = <<>>

C9_Witness ==
  /\ Returned("command")
  /\ obs.last.t = "eof"
  /\ obs.kept
  /\ ret.err.kind = "closed"

\* C10 (as claimed): every %begin or %end line with a missing or non-numeric
\* id that a call reads makes the call fail with a malformed-framing error.
C10_EveryMalformedMarkerFails ==
  obs.bad =>
    /\ cl.pc = "idle"
    /\ ret.status = "err"
    /\ ret.err.kind \in {"malformed", "invalid_id"}

(***************************************************************************)
(* Claims about the handoff                                                *)
(***************************************************************************)
PaneAt(at) == srv.sessions[at[1]].windows[at[2]].panes[at[3]]
SessionOf(at) == srv.sessions[at[1]].name
WindowOf(at) == srv.sessions[at[1]].windows[at[2]].name
Kinds(log) == [i \in DOMAIN log |-> log[i].t]
Got(at, kind) == \E i \in DOMAIN PaneAt(at).log : PaneAt(at).log[i].t = kind
StopTokenOf(at) == HandoffStopToken(SessionOf(at), WindowOf(at), PaneIndex(srv, at[3]))
HandoffDone == ho.pc = "done" /\ ho.result = "ok"

\* the panes of the configured handoff windows in the sessions of the project
HandoffPanes ==
  {at \in AllPanes(srv) :
     /\ IsProjectSession(cfg.name, SessionOf(at))
     /\ \E k \in DOMAIN ho.configured : ho.configured[k].name = WindowOf(at)}

CommandsOf(at) == CommandsForWindow(cfg.windows, WindowOf(at))

\* C2 (as claimed): a pane of the target session that was asked to signal its
\* stop gets a replacement command only after that stop signal has fired.
C2_ReplayOnlyAfterStopFired ==
  \A at \in AllPanes(srv) :
    (Got(at, "signal") /\ Got(at, "cmd")) => StopTokenOf(at) \in srv.signalled

\* C3 (as claimed): when the handoff has returned success, no pane of a
\* handoff window of another session of the project still runs anything, and
\* in the target session every configured handoff command is running or is
\* input the pane has still to read.
C3_OneInstanceInTarget ==
  HandoffDone =>
    \A at \in HandoffPanes :
      IF SessionOf(at) = ho.target
      THEN at[3] <= Len(CommandsOf(at)) =>
             \/ PaneAt(at).fg = CommandsOf(at)[at[3]]
             \/ \E i \in DOMAIN PaneAt(at).q :
                  PaneAt(at).q[i] = CmdLine(CommandsOf(at)[at[3]])
      ELSE PaneAt(at).fg = Idle

\* C4 (as claimed, for an invocation that returned success): every pane of a
\* handoff window of a sibling session got interrupt and stop request and no
\* command; every pane of it in the target session got interrupt, stop
\* request and a replacement command.
C4_EveryTargetPaneReplayed ==
  HandoffDone =>
    \A at \in HandoffPanes :
      Kinds(PaneAt(at).log) =
        IF SessionOf(at) = ho.target THEN <<"int", "signal", "cmd">> ELSE <<"int", "signal">>

\* C4 (amended): a pane never gets a replacement command outside the target
\* session, never gets the stop request before the interrupt nor the
\* replacement before either; the stop request names the pane's own token and
\* the replacement is the configured command at the pane's position. When the
\* invocation returns success every pane of a handoff window has got
\* interrupt and stop request, and in the target session the panes up to the
\* number of configured commands have got their replacement after them.
C4_InterruptStopReplayOrder ==
  /\ \A at \in AllPanes(srv) :
       LET log == PaneAt(at).log
           rank(item) == IF item.t = "int" THEN 1 ELSE IF item.t = "signal" THEN 2 ELSE 3
       IN /\ \A i, j \in DOMAIN log : i < j => rank(log[i]) < rank(log[j])
          /\ \A i \in DOMAIN log :
               /\ log[i].t = "signal" => log[i].token = StopTokenOf(at)
               /\ log[i].t = "cmd" =>
                    /\ SessionOf(at) = ho.target
                    /\ at \in HandoffPanes
                    /\ at[3] <= Len(CommandsOf(at))
                    /\ log[i].text = CommandsOf(at)[at[3]]
          /\ at \notin HandoffPanes => log = <<>>
  /\ HandoffDone =>
       \A at \in HandoffPanes :
         Kinds(PaneAt(at).log) =
           IF SessionOf(at) = ho.target /\ at[3] <= Len(CommandsOf(at))
           THEN <<"int", "signal", "cmd">>
           ELSE <<"int", "signal">>

C4_Witness ==
  /\ HandoffDone
  /\ ho.target = WorktreeSessionName(ProjectName, <<"a">>)
  /\ \E sib, tgt \in HandoffPanes :
       /\ SessionOf(sib) = ProjectName
       /\ SessionOf(tgt) = ho.target
       /\ WindowOf(sib) = "server" /\ WindowOf(tgt) = "server"
       /\ Kinds(PaneAt(sib).log) = <<"int", "signal">>
       /\ PaneAt(tgt).log = <<IntKey, HandoffStopSignal(StopTokenOf(tgt)), CmdLine("run")>>

(***************************************************************************)
(* Claims about the post-create commands                                   *)
(***************************************************************************)
IsChain(call) == call.op = "send-keys" /\ call.item.t = "chain"
IsWait(call) == call.op = "wait-for"
ChainsSent == SelectSeq(sb.sent, IsChain)
LivePostCreate ==
  SelectSeq([k \in DOMAIN sb.post_create_commands |-> Trim(sb.post_create_commands[k])],
            LAMBDA c : c # "")
BuilderDone == sb.pc = "done"

\* C5 (as claimed, the part about a signal that does not fire): when the
\* call has returned, the signal of every setup command it waited for has
\* fired.
C5_ReturnsOnlyAfterEverySignal ==
  BuilderDone =>
    \A j \in DOMAIN sb.sent : IsWait(sb.sent[j]) => sb.sent[j].item.token \in srv.signalled

\* C5 (amended): the setup commands sent are the non-empty configured ones,
\* trimmed, in declared order, each followed at once by the wait-for on its
\* own token; whatever was written after a wait-for was written after that
\* token's signal fired, so that a command whose signal does not fire is the
\* last thing sent on the connection; a setup command is typed only into a
\* shell that is back at its prompt with nothing else to read; and the call
\* returns success only when every token it waited for has fired (it can
\* return an error before, when the connection fails during the wait).
C5_PostCreateInSequence ==
  /\ Len(ChainsSent) <= Len(LivePostCreate)
  /\ \A k \in DOMAIN ChainsSent : ChainsSent[k].item.text = LivePostCreate[k]
  /\ \A j \in DOMAIN sb.sent :
       /\ IsChain(sb.sent[j]) /\ j < Len(sb.sent) =>
            /\ IsWait(sb.sent[j + 1])
            /\ sb.sent[j + 1].item.token = sb.sent[j].item.token
       /\ IsChain(sb.sent[j]) /\ j = Len(sb.sent) => sb.pc \in {"wait", "done"}
       /\ IsWait(sb.sent[j]) /\ (j < Len(sb.sent) \/ sb.result = "ok") =>
            sb.sent[j].item.token \in srv.signalled
       /\ IsWait(sb.sent[j]) /\ sb.sent[j].item.token \notin srv.signalled =>
            /\ j = Len(sb.sent)
            /\ sb.pc = "waiting" \/ (sb.pc = "done" /\ sb.result = "err")
  /\ \A at \in AllPanes(srv) :
       LET pane == PaneAt(at)
           chains == {i \in DOMAIN pane.q : pane.q[i].t = "chain"}
       IN /\ Cardinality(chains) <= 1
          /\ chains # {} => pane.fg = Idle /\ Len(pane.q) = 1

C5_Witness ==
  /\ BuilderDone /\ sb.result = "ok"
  /\ Len(ChainsSent) = 2
  /\ sb.post_create_commands = <<"i", "s">>
  /\ \A j \in DOMAIN sb.sent : IsWait(sb.sent[j]) => sb.sent[j].item.token \in srv.signalled
  /\ \E j \in DOMAIN sb.sent : sb.sent[j].op = "send-keys" /\ sb.sent[j].item = CmdLine("run")

C12_RemainingPanesAttempted ==
  (ho.pc = "done" /\ ho.faults = 1 /\ ho.first_error # NoError /\ ho.first_error[1] = "send_keys") =>
    \A at \in HandoffPanes :
      (/\ SessionOf(at) = ho.first_error[2]
       /\ WindowOf(at) = ho.first_error[3]
       /\ PaneIndex(srv, at[3]) # ho.first_error[4]) =>
        Got(at, "int") /\ Got(at, "signal")

(***************************************************************************)
(* Claims about the session build                                          *)
(***************************************************************************)
CountOp(seq, op) == Cardinality({j \in DOMAIN seq : seq[j].op = op})
Answered == IF sb.sent = <<>> THEN <<>> ELSE SubSeq(sb.sent, 1, Len(sb.sent) - 1)
BuiltAt == SessionPos(srv, sb.session_name)
BuilderFailed == sb.pc = "done" /\ sb.result = "err"

\* what the calls that succeeded before the failure have created is there
CreatedRemains ==
  CountOp(Answered, "new-session") = 1 =>
    /\ BuiltAt # 0
    /\ LET windows == srv.sessions[BuiltAt].windows
       IN /\ Len(windows) = 1 + CountOp(Answered, "new-window")
          /\ Cardinality({at \in AllPanes(srv) : at[1] = BuiltAt})
               = Len(windows) + CountOp(Answered, "split-window")

\* C13: in start_with_control at most one protocol call fails; when one has
\* failed the call has returned the error, the failed call is the last
\* command written, no kill-session or kill-window was written, the session,
\* windows and panes created before are still there, and afterwards the
\* builder writes nothing more.
C13_FirstFailureEndsBuild ==
  /\ [](/\ sb.faults <= 1
        /\ sb.faults = 1 => BuilderFailed
        /\ BuilderFailed =>
             /\ \A j \in DOMAIN sb.sent : sb.sent[j].op \notin {"kill-session", "kill-window"}
             /\ sb.client = "dropped" \/ sb.sent = <<>>
             /\ CreatedRemains)
  /\ [][sb.pc = "done" => sb' = sb]_vars

C13_Witness ==
  /\ BuilderFailed
  /\ sb.faults = 1
  /\ CountOp(Answered, "new-window") = 1
  /\ CountOp(Answered, "split-window") = 1
  /\ BuiltAt # 0
  /\ Len(srv.sessions[BuiltAt].windows) = 2

BuilderSucceeded == sb.pc = "done" /\ sb.result = "ok"
\* the positions in the log of the commands `op` that name window `name`
CallsAt(name, op) == {j \in DOMAIN sb.sent : sb.sent[j].window = name /\ sb.sent[j].op = op}

\* C14: after a successful build, a window spec with a list of P >= 1 panes
\* has got exactly P-1 split-window commands, each with -v when the layout is
\* main-horizontal and -h otherwise; a named layout has been applied by
\* exactly one select-layout, after every split and before the select-pane
\* of that window, and without a named layout no select-layout was written.
C14_SplitsAndLayout ==
  BuilderSucceeded =>
    \A k \in DOMAIN sb.windows :
      LET w == sb.windows[k]
          splits == CallsAt(w.name, "split-window")
          layouts == CallsAt(w.name, "select-layout")
          selects == CallsAt(w.name, "select-pane")
      IN (HasPanes(w) /\ Len(Panes(w)) >= 1) =>
           /\ Cardinality(splits) = Len(Panes(w)) - 1
           /\ \A j \in splits :
                sb.sent[j].arg = (IF w.layout = "main-horizontal" THEN "-v" ELSE "-h")
           /\ Cardinality(selects) = 1
           /\ IF w.layout = NoCmd THEN layouts = {}
              ELSE /\ Cardinality(layouts) = 1
                   /\ \A j \in layouts :
                        /\ sb.sent[j].arg = w.layout
                        /\ \A i \in splits : i < j
                        /\ \A i \in selects : j < i

C14_Witness ==
  /\ BuilderSucceeded
  /\ \E k \in DOMAIN sb.windows :
       /\ Len(Panes(sb.windows[k])) = 3
       /\ sb.windows[k].layout = "tiled"
       /\ Cardinality(CallsAt(sb.windows[k].name, "split-window")) = 2
       /\ Cardinality(CallsAt(sb.windows[k].name, "select-layout")) = 1

WindowNames(windows) == [k \in DOMAIN windows |-> windows[k].name]

\* C15: after a successful build the window list of the session is the
\* configured window names in declared order and nothing else, one
\* new-window was written for every window after the first, and no window is
\* called setup-twig; without configured windows the session has the one
\* window shell and no new-window was written.
C15_WindowListIsTheSpec ==
  BuilderSucceeded =>
    LET listed == ListWindows(srv, sb.session_name)
    IN /\ listed.ok
       /\ listed.names = (IF sb.windows = <<>> THEN <<"shell">> ELSE WindowNames(sb.windows))
       /\ CountOp(sb.sent, "new-window") = (IF sb.windows = <<>> THEN 0 ELSE Len(sb.windows) - 1)
       /\ CountOp(sb.sent, "rename-window") = 1

C15_Witness ==
  /\ BuilderSucceeded
  /\ Len(sb.windows) = 3
  /\ ListWindows(srv, sb.session_name).names = <<"shell", "editor", "logs">>
  /\ CountOp(sb.sent, "new-window") = 2

\* the window specs with no pane and no inline command
BareWindows ==
  {k \in DOMAIN sb.windows : sb.windows[k].panes = <<>> /\ sb.windows[k].command = NoCmd}
BuiltWindow(k) == srv.sessions[BuiltAt].windows[WindowPos(srv.sessions[BuiltAt], sb.windows[k].name)]

\* C16 (as claimed): after a successful build the one pane of a window spec
\* with no pane and no inline command has never been sent any keystrokes and
\* is idle, and the window was never split.
C16_BareWindowUntouched ==
  BuilderSucceeded =>
    \A k \in BareWindows :
      /\ Len(BuiltWindow(k).panes) = 1
      /\ BuiltWindow(k).panes[1] = NewPane(Idle)

\* C16 (amended): no send-keys and no split-window is ever written for a
\* window spec with no pane and no inline command; after a successful build
\* the window has its one pane, idle and with nothing left to read, and the
\* only keystrokes that pane has ever got are the post-create command lines,
\* which the first window's pane got while it was the setup window.
C16_BareWindowNotPopulated ==
  \A k \in BareWindows :
    /\ CallsAt(sb.windows[k].name, "send-keys") = {}
    /\ CallsAt(sb.windows[k].name, "split-window") = {}
    /\ BuilderSucceeded =>
         LET panes == BuiltWindow(k).panes
         IN /\ Len(panes) = 1
            /\ panes[1].fg = Idle /\ panes[1].q = <<>>
            /\ panes[1].log = (IF k = 1 THEN [i \in DOMAIN ChainsSent |-> ChainsSent[i].item]
                                ELSE <<>>)

C16_Witness ==
  /\ BuilderSucceeded
  /\ 1 \in BareWindows
  /\ Len(BuiltWindow(1).panes[1].log) = 2
  /\ BuiltWindow(1).panes[1].fg = Idle
  /\ CallsAt(sb.windows[1].name, "send-keys") = {}

\* C17: no send-keys and no wait-for is ever written for an empty or
\* whitespace-only setup command, and no token carries its index; when every
\* setup command is such a command no token is generated at all and the
\* commands of a successful build are those of the session creation followed
\* by those of the window setup.
C17_EmptySetupCommandSendsNothing ==
  /\ \A j \in DOMAIN sb.sent :
       (IsChain(sb.sent[j]) \/ IsWait(sb.sent[j])) =>
         LET index == sb.sent[j].item.token[3] + 1
         IN /\ index \in DOMAIN sb.post_create_commands
            /\ Trim(sb.post_create_commands[index]) # ""
            /\ IsChain(sb.sent[j]) => sb.sent[j].item.text = Trim(sb.post_create_commands[index])
  /\ CountOp(sb.sent, "wait-for") <= Len(ChainsSent)
  /\ Len(ChainsSent) <= Len(LivePostCreate)
  /\ LivePostCreate = <<>> =>
       /\ sb.token = <<>> /\ sb.now = 0
       /\ BuilderSucceeded =>
            sb.sent = CreateSessionCalls(sb) \o SetupWindowsCalls(sb, srv.base_index)

C17_Witness ==
  /\ BuilderSucceeded
  /\ sb.post_create_commands = <<Blank, "i">>
  /\ Len(ChainsSent) = 1
  /\ ChainsSent[1].item.token[3] = 1
  /\ CountOp(sb.sent, "wait-for") = 1

\* C18: when the project declares no handoff window, or none of them carries
\* a command, the handoff returns success without ever having opened a
\* connection and without a keystroke in any pane.
C18_NoOpOpensNoConnection ==
  (ho.pc # "idle" /\ (cfg.handoff_windows = <<>> \/ ConfiguredWindows(cfg) = <<>>)) =>
    /\ ho.pc = "done"
    /\ ho.result = "ok"
    /\ ho.client = "none"
    /\ \A at \in AllPanes(srv) : PaneAt(at).log = <<>>

\* C19: whenever the handoff lists the panes of a window or sends to one of
\* its panes, that window is a configured handoff window carrying a command
\* and is present by name in the window list obtained for that session; no
\* error is recorded for a window the session lacks, and no pane of any
\* other window, nor of a session of another project, ever gets a key.
C19_OnlyPresentHandoffWindowsTouched ==
  /\ ho.pc \in {"list_panes", "send_int", "send_stop", "replay"} =>
       /\ HandoffWindow(ho) \in Range(cfg.handoff_windows)
       /\ CommandsForWindow(cfg.windows, HandoffWindow(ho)) # <<>>
       /\ HandoffWindow(ho) \in Range(ho.session_windows)
       /\ ho.session_windows = ListWindows(srv, HandoffSession(ho)).names
       /\ IsProjectSession(cfg.name, HandoffSession(ho))
  /\ ho.first_error # NoError /\ ho.first_error[1] \in {"list_panes", "send_keys"} =>
       ho.first_error[3] \in Range(ListWindows(srv, ho.first_error[2]).names)
  /\ \A at \in AllPanes(srv) :
       PaneAt(at).log # <<>> =>
         /\ WindowOf(at) \in Range(cfg.handoff_windows)
         /\ IsProjectSession(cfg.name, SessionOf(at))

C19_Witness ==
  /\ HandoffDone
  /\ cfg.handoff_windows = <<"server", "worker">>
  /\ ListWindows(srv, WorktreeSessionName(ProjectName, <<"a">>)).names = <<"server">>
  /\ ho.target = WorktreeSessionName(ProjectName, <<"a">>)
  /\ \E at \in AllPanes(srv) :
       /\ SessionOf(at) = ho.target /\ WindowOf(at) = "server"
       /\ Kinds(PaneAt(at).log) = <<"int", "signal", "cmd">>
  /\ \E at \in AllPanes(srv) :
       /\ SessionOf(at) = ProjectName /\ WindowOf(at) = "worker"
       /\ Kinds(PaneAt(at).log) = <<"int", "signal">>
  /\ \A at \in AllPanes(srv) : WindowOf(at) = "shell" => PaneAt(at).log = <<>>

\* the signal names typed into the panes, each with the place it was typed at
SignalEvents ==
  {<<at, i>> \in AllPanes(srv) \X (1..(2 * MaxLog + 2)) :
     /\ i \in DOMAIN PaneAt(at).log
     /\ PaneAt(at).log[i].t \in {"signal", "chain"}}

SignalName(ev) == PaneAt(ev[1]).log[ev[2]].token

\* C20: no two signalling events, of one invocation or of two, carry the
\* same wait-for signal name.
C20_SignalNamesNeverReused ==
  \A e1, e2 \in SignalEvents : e1 # e2 => SignalName(e1) # SignalName(e2)


(***************************************************************************)
(* Part 4  Helper functions: what they compute for inputs drawn from       *)
(*         bounded sets (SpecPure)                                         *)
(***************************************************************************)
DigitChars == <<"0", "1", "2", "3", "4", "5", "6", "7", "8", "9">>

\* Display of an unsigned integer: its decimal digits, most significant first
RECURSIVE Decimal(_)
Decimal(n) ==
  IF n < 10 THEN <<DigitChars[n + 1]>>
  ELSE Decimal(n \div 10) \o <<DigitChars[(n % 10) + 1]>>

WaitTokenText_NoSeparator(token) ==
  <<"twig-post-create-">> \o token[2] \o Decimal(token[3]) \o Decimal(token[4])

\* format!("twig-post-create-{}-{}-{}", session, index, now): the characters
\* of the signal name
WaitTokenText(token) ==
  <<"twig-post-create-">> \o token[2] \o <<"-">> \o Decimal(token[3]) \o <<"-">>
    \o Decimal(token[4])

\* two tokens asked for the same session
TokenCalls ==
  {[f |-> "unique_wait_token", done |-> FALSE, session |-> session,
    index |-> index, now |-> now, out |-> <<>>] :
     session \in {<<"p">>, <<"p", Sep, "a", "-", "1">>},
     index \in (0..MaxIndex) \X (0..MaxIndex),
     now \in (0..MaxNow) \X (0..MaxNow)}

CallUniqueWaitToken ==
  /\ fn.f = "unique_wait_token"
  /\ ~fn.done
  /\ fn' = [fn EXCEPT !.done = TRUE,
                      !.out = <<WaitTokenText(UniqueWaitToken(fn.session, fn.index[1], fn.now[1])),
                                WaitTokenText(UniqueWaitToken(fn.session, fn.index[2], fn.now[2]))>>]
  /\ UNCHANGED <<ho2, wireVars, handoffVars, sb, ks>>

(***************************************************************************)
(* quote_tmux_arg (src/src/tmux_control.rs 275-278)                        *)
(***************************************************************************)
Backslash == "\\"
Quote == "\""

\* str::replace for a pattern of one character
RECURSIVE Replace(_, _, _)
Replace(value, from, to) ==
  IF value = <<>> THEN <<>>
  ELSE (IF Head(value) = from THEN to ELSE <<Head(value)>>) \o Replace(Tail(value), from, to)

QuoteTmuxArg_QuotesFirst(value) ==
  LET escaped == Replace(Replace(value, Quote, <<Backslash, Quote>>),
                         Backslash, <<Backslash, Backslash>>)
  IN <<Quote>> \o escaped \o <<Quote>>

QuoteTmuxArg(value) ==
  LET escaped == Replace(Replace(value, Backslash, <<Backslash, Backslash>>),
                         Quote, <<Backslash, Quote>>)
  IN <<Quote>> \o escaped \o <<Quote>>

\* the strings over backslash, double quote, space and an ordinary character
Strings == UNION {[1..n -> {Backslash, Quote, " ", "a"}] : n \in 0..MaxLen}

QuoteCalls ==
  {[f |-> "quote_tmux_arg", done |-> FALSE, value |-> value, out |-> <<>>] : value \in Strings}

CallQuoteTmuxArg ==
  /\ fn.f = "quote_tmux_arg"
  /\ ~fn.done
  /\ fn' = [fn EXCEPT !.done = TRUE, !.out = QuoteTmuxArg(fn.value)]
  /\ UNCHANGED <<ho2, wireVars, handoffVars, sb, ks>>

(***************************************************************************)
(* Session names as typed (src/src/tmux.rs 192-205)                        *)
(***************************************************************************)
\* a name as the pattern "__" meets it, read from the left: two underscores
\* in a row are one separator, a single one is a character like any other
RECURSIVE Separators(_)
Separators(name) ==
  IF name = <<>> THEN <<>>
  ELSE IF Len(name) >= 2 /\ name[1] = "_" /\ name[2] = "_"
       THEN <<Sep>> \o Separators(Tail(Tail(name)))
       ELSE <<Head(name)>> \o Separators(Tail(name))

\* session and project names over two letters and the underscore
Names == UNION {[1..n -> {"p", "q", "_"}] : n \in 0..MaxLen}
ProjectNames == UNION {[1..n -> {"p", "q", "_"}] : n \in 1..2}

NameCalls ==
  {[f |-> "is_project_session", done |-> FALSE, session_name |-> session_name,
    project_name |-> project_name, out |-> <<>>] :
     session_name \in Names, project_name \in ProjectNames}

CallIsProjectSession ==
  /\ fn.f = "is_project_session"
  /\ ~fn.done
  /\ fn' = [fn EXCEPT
              !.done = TRUE,
              !.out = <<IsWorktreeSessionForProject(Separators(fn.session_name),
                                                    Separators(fn.project_name)),
                        IsProjectSession(Separators(fn.project_name),
                                         Separators(fn.session_name))>>]
  /\ UNCHANGED <<ho2, wireVars, handoffVars, sb, ks>>

\* Project::worktree_session_name (src/src/config/project.rs 157-160):
\* format!("{}__{}", name, branch.replace('/', "-"))
ProjectWorktreeSessionName(name, branch) ==
  name \o <<"_", "_">> \o [i \in DOMAIN branch |-> IF branch[i] = "/" THEN "-" ELSE branch[i]]

\* two projects and a branch; each of the four sessions runs or does not
ListedProjects == {<<"p">>, <<"q">>, <<"p", "_", "_", "q">>}
Branches == {<<"a">>, <<"a", "/", "b">>}
ListCalls ==
  {[f |-> "running_project_sessions", done |-> FALSE, project_name |-> project_name,
    other |-> other, branch |-> branch,
    sessions |-> SelectSeq(<<project_name, ProjectWorktreeSessionName(project_name, branch),
                             other, ProjectWorktreeSessionName(other, branch)>>,
                           LAMBDA name : name \in running),
    out |-> <<>>] :
     project_name \in ListedProjects, other \in ListedProjects, branch \in Branches,
     running \in SUBSET (ListedProjects
                         \cup {ProjectWorktreeSessionName(n, b) : n \in ListedProjects,
                                                                   b \in Branches})}

\* running_project_sessions(project_name): the listed sessions, filtered
CallRunningProjectSessions ==
  /\ fn.f = "running_project_sessions"
  /\ ~fn.done
  /\ fn' = [fn EXCEPT
              !.done = TRUE,
              !.out = SelectSeq(fn.sessions,
                                LAMBDA name : IsProjectSession(Separators(fn.project_name),
                                                               Separators(name)))]
  /\ UNCHANGED <<ho2, wireVars, handoffVars, sb, ks>>

PureCalls == TokenCalls \cup QuoteCalls \cup NameCalls \cup ListCalls

InitPure ==
  /\ InitWire
  /\ cfg = NoProject
  /\ srv = NoServer
  /\ ho = IdleHandoff
  /\ sb = IdleBuilder
  /\ fn \in PureCalls
  /\ ks = IdleKill
  /\ ho2 = IdleHandoff

NextPure ==
  \/ CallUniqueWaitToken
  \/ CallQuoteTmuxArg
  \/ CallIsProjectSession
  \/ CallRunningProjectSessions

SpecPure == InitPure /\ [][NextPure]_vars

\* C21: two post-create wait tokens made for the same session with different
\* sequence indices are different names, whatever the two timestamps are and
\* in particular when the timestamps are equal.
C21_IndexSeparatesTokens ==
  (fn.f = "unique_wait_token" /\ fn.done /\ fn.index[1] # fn.index[2]) =>
    fn.out[1] # fn.out[2]

C21_Witness ==
  /\ fn.f = "unique_wait_token" /\ fn.done
  /\ fn.index = <<1, 11>>
  /\ fn.now = <<10, 10>>
  /\ fn.out[1] = <<"twig-post-create-", "p", "-", "1", "-", "1", "0">>
  /\ fn.out[2] = <<"twig-post-create-", "p", "-", "1", "1", "-", "1", "0">>



\* the life of the control subprocess of one operation, as seen in two
\* successive states of that operation
ClientSteps(before, after) ==
  \/ after.client = before.client
  \/ before.client = "none" /\ after.client \in {"open", "dropped"}
  \/ before.client = "open" /\ after.client = "dropped"
  \/ after.pc = "idle" /\ after.client = "none"

\* the subprocess runs exactly while the operation that spawned it does
ClientScoped(op) ==
  /\ op.client = "open" => op.pc \notin {"idle", "done"}
  /\ op.pc \in {"idle", "done"} => op.client \in {"none", "dropped"}
  /\ op.pc \notin {"idle", "done"} => op.client = "open"

SeparateFlow ==
  Run([srv EXCEPT !.sessions = <<>>, !.signalled = {}],
      SeparateFlowCalls(sb, srv.base_index))

\* names, pane counts and the keys each pane got, setup command lines aside
Structure(server) ==
  [si \in DOMAIN server.sessions |->
     [name |-> server.sessions[si].name,
      windows |->
        [wi \in DOMAIN server.sessions[si].windows |->
           [name |-> server.sessions[si].windows[wi].name,
            panes |-> [k \in DOMAIN server.sessions[si].windows[wi].panes |->
                         SelectSeq(server.sessions[si].windows[wi].panes[k].log,
                                   LAMBDA item : item.t # "chain")]]]]]

C24_KillPollsUntilGoneOrTimeout ==
  /\ [](/\ ks.requests <= 1
        /\ ks.pc \in {"poll", "sleep"} => ks.requests = 1
        /\ ks.pc = "sleep" => ks.elapsed < MaxWait /\ Len(ks.polls) = ks.elapsed + 1
        /\ ks.result = "ok" =>
             /\ ks.polls # <<>> /\ ~ks.polls[Len(ks.polls)]
             /\ \A i \in 1..(Len(ks.polls) - 1) : ks.polls[i]
        /\ ks.result = "timeout" =>
             /\ ks.polls = [i \in 1..(MaxWait + 1) |-> TRUE]
             /\ ks.elapsed = MaxWait
        /\ ks.pc = "done" => ks.result \in {"ok", "timeout", "err"})
  /\ (ks.pc # "idle" ~> ks.pc = "done")

C24_Witness ==
  /\ ks.pc = "done"
  /\ ks.result = "timeout"
  /\ ks.requests = 1
  /\ SessionExists(srv, ks.name)
  /\ Len(ks.polls) = MaxWait + 1


\* reading a quoted argument back: inside the quotes a backslash stands for
\* the character after it
RECURSIVE Unescape(_)
Unescape(text) ==
  IF text = <<>> THEN <<>>
  ELSE IF Head(text) = Backslash /\ Len(text) >= 2
       THEN <<text[2]>> \o Unescape(Tail(Tail(text)))
       ELSE <<Head(text)>> \o Unescape(Tail(text))

\* no double quote stands unescaped and no backslash stands alone
RECURSIVE Escaped(_)
Escaped(text) ==
  IF text = <<>> THEN TRUE
  ELSE IF Head(text) = Backslash
       THEN Len(text) >= 2 /\ text[2] \in {Backslash, Quote} /\ Escaped(Tail(Tail(text)))
       ELSE Head(text) # Quote /\ Escaped(Tail(text))

Inside(text) == SubSeq(text, 2, Len(text) - 1)

\* C25: the result of quote_tmux_arg begins and ends with a double quote,
\* between them every double quote and every backslash is escaped, reading
\* it back gives the argument, and no other string has the same result.
C25_QuoteRoundTrip ==
  (fn.f = "quote_tmux_arg" /\ fn.done) =>
    /\ Len(fn.out) >= 2
    /\ Head(fn.out) = Quote /\ fn.out[Len(fn.out)] = Quote
    /\ Escaped(Inside(fn.out))
    /\ Unescape(Inside(fn.out)) = fn.value
    /\ \A other \in Strings : QuoteTmuxArg(other) = fn.out => other = fn.value

C25_Witness ==
  /\ fn.f = "quote_tmux_arg" /\ fn.done
  /\ fn.value = <<"a", Quote, " ", Backslash>>
  /\ fn.out = <<Quote, "a", Backslash, Quote, " ", Backslash, Backslash, Quote>>


\* the places where two underscores stand in a row
SeparatorsAt(name) == {i \in 1..(Len(name) - 1) : name[i] = "_" /\ name[i + 1] = "_"}

\* the characters before the first "__"
BeforeFirstSeparator(name) ==
  SubSeq(name, 1, (CHOOSE i \in SeparatorsAt(name) : \A k \in SeparatorsAt(name) : i <= k) - 1)

\* C26: a session name is a worktree session of project p exactly when it
\* contains "__" and the characters before the first "__" are p; it is a
\* session of the project exactly when it is p or a worktree session of p.
C26_WorktreeSessionClassified ==
  (fn.f = "is_project_session" /\ fn.done) =>
    /\ fn.out[1] = (/\ SeparatorsAt(fn.session_name) # {}
                    /\ BeforeFirstSeparator(fn.session_name) = fn.project_name)
    /\ fn.out[2] = (fn.session_name = fn.project_name \/ fn.out[1])
    /\ SeparatorsAt(fn.session_name) = {} => ~fn.out[1]

C26_Witness ==
  /\ fn.f = "is_project_session" /\ fn.done
  /\ fn.session_name = <<"p", "_", "_", "q">>
  /\ fn.project_name = <<"p">>
  /\ fn.out = <<TRUE, TRUE>>


\* C27: a pane of the target session has got a configured command only if
\* every pane of its window has got the interrupt and the stop request.
C27_ReplayOnlyAfterWindowStopped ==
  \A at \in HandoffPanes :
    Got(at, "cmd") =>
      \A other \in HandoffPanes :
        (other[1] = at[1] /\ other[2] = at[2]) => Got(other, "int") /\ Got(other, "signal")


\* the command the session build started in a pane, Idle when it started none
BuiltCommand(at) ==
  LET k == CHOOSE k \in DOMAIN cfg.windows : cfg.windows[k].name = WindowOf(at)
  IN BuiltPanes(cfg.windows[k], TRUE)[at[3]].fg

\* C28: as long as no call of the handoff has failed, a pane of a handoff
\* window in the target session is sent no command but the one the build
\* started in that very pane, and after a successful handoff every pane the
\* build started a command in has been sent it again.
C28_PaneIdentityPreserved ==
  \A at \in HandoffPanes :
    (SessionOf(at) = ho.target /\ ho.first_error = NoError) =>
      /\ \A i \in DOMAIN PaneAt(at).log :
           PaneAt(at).log[i].t = "cmd" => PaneAt(at).log[i].text = BuiltCommand(at)
      /\ (HandoffDone /\ BuiltCommand(at) # Idle) => Got(at, "cmd")


\* the configured commands a pane has been sent
Replayed(at) == SelectSeq(PaneAt(at).log, LAMBDA item : item.t = "cmd")

\* the panes of the window of pane `at`, and how many of them were sent a command
WindowPanes(at) == {other \in AllPanes(srv) : other[1] = at[1] /\ other[2] = at[2]}
ReplayedIn(at) == Cardinality({other \in WindowPanes(at) : Replayed(other) # <<>>})

\* C29: in the target session the pane at position k of a handoff window, in
\* ascending order of pane index, is sent the k-th configured command and
\* nothing else, at most once and only after the panes before it; a command
\* beyond the number of panes is sent nowhere, and after a successful handoff
\* the window has been sent as many commands as the smaller of its number of
\* commands and its number of panes.
C29_CommandsToPanesInOrder ==
  /\ \A at \in AllPanes(srv) :
       /\ Len(Replayed(at)) <= 1
       /\ Replayed(at) # <<>> =>
            /\ at \in HandoffPanes /\ SessionOf(at) = ho.target
            /\ at[3] <= Len(CommandsOf(at))
            /\ Replayed(at) = <<CmdLine(CommandsOf(at)[at[3]])>>
            /\ \A other \in WindowPanes(at) : other[3] < at[3] => Replayed(other) # <<>>
  /\ HandoffDone =>
       \A at \in HandoffPanes :
         SessionOf(at) = ho.target =>
           ReplayedIn(at) = IF Len(CommandsOf(at)) <= Cardinality(WindowPanes(at))
                            THEN Len(CommandsOf(at)) ELSE Cardinality(WindowPanes(at))

C29_Witness ==
  /\ HandoffDone
  /\ ho.target = ProjectName
  /\ \E at \in HandoffPanes :
       /\ SessionOf(at) = ProjectName
       /\ CommandsOf(at) = <<"run", "job">>
       /\ WindowPanes(at) = {at}
       /\ Replayed(at) = <<CmdLine("run")>>
       /\ \A other \in AllPanes(srv) : Replayed(other) # <<>> => other = at


\* a command without the timestamp of its token
Linear(call) ==
  [op |-> call.op, session |-> call.session, window |-> call.window, arg |-> call.arg,
   index |-> call.index, kind |-> call.item.t, text |-> call.item.text,
   seq |-> IF call.item.token = <<>> THEN None ELSE call.item.token[3]]

\* the commands of the setup command at position k of the list
PostCreateCalls(k) ==
  LET command == Trim(sb.post_create_commands[k])
      token == UniqueWaitToken(sb.session_name, k - 1, 0)
  IN IF command = "" THEN <<>>
     ELSE <<Call("send-keys", sb.session_name, SetupWindowName, "", None,
                 ChainLine(command, token)),
            Call("wait-for", <<>>, "", "", None, WaitItem(token))>>

\* the one order of the commands of a build
LinearOrder ==
  LET all == CreateSessionCalls(sb)
             \o Flatten([k \in DOMAIN sb.post_create_commands |-> PostCreateCalls(k)])
             \o SetupWindowsCalls(sb, srv.base_index)
  IN [j \in DOMAIN all |-> Linear(all[j])]

IsWindowCall(call) ==
  \/ call.op \in {"rename-window", "new-window", "split-window", "select-layout",
                  "select-pane", "select-window"}
  \/ call.op = "send-keys" /\ call.item.t # "chain"

\* C30: the commands start_with_control has written are at every moment the
\* beginning of one fixed list: the session creation with setup-twig, the
\* declarations of TWIG_PROJECT and (with a branch) TWIG_WORKTREE, per setup
\* command its line and its wait, the rename and population of the first
\* window, creation and population of the others in order, the selection of
\* the first window; commands are only ever added at the end, and when a
\* rename, new-window or pane command has been written every setup command
\* has been sent, waited for and has signalled.
C30_LinearOrder ==
  /\ [](/\ Len(sb.sent) <= Len(LinearOrder)
        /\ [j \in DOMAIN sb.sent |-> Linear(sb.sent[j])] = SubSeq(LinearOrder, 1, Len(sb.sent))
        /\ (\E j \in DOMAIN sb.sent : IsWindowCall(sb.sent[j])) =>
             /\ Len(ChainsSent) = Len(LivePostCreate)
             /\ CountOp(sb.sent, "wait-for") = Len(LivePostCreate)
             /\ \A i \in DOMAIN sb.sent :
                  (IsChain(sb.sent[i]) \/ IsWait(sb.sent[i])) =>
                    /\ sb.sent[i].item.token \in srv.signalled
                    /\ \A j \in 1..i : ~IsWindowCall(sb.sent[j])
        /\ BuilderSucceeded => Len(sb.sent) = Len(LinearOrder))
  /\ [][\/ sb.sent' = sb.sent
        \/ /\ Len(sb.sent') = Len(sb.sent) + 1
           /\ SubSeq(sb.sent', 1, Len(sb.sent)) = sb.sent]_vars

C30_Witness ==
  /\ BuilderSucceeded
  /\ sb.worktree_branch # NoBranch
  /\ sb.post_create_commands = <<"s", "i">>
  /\ [j \in 1..8 |-> sb.sent[j].op] =
       <<"new-session", "set-environment", "set-environment", "send-keys", "wait-for",
         "send-keys", "wait-for", "rename-window">>
  /\ sb.sent[3].arg = "TWIG_WORKTREE"
  /\ CountOp(sb.sent, "new-window") = 2
  /\ sb.sent[Len(sb.sent)].op = "select-window"


\* C31: every select-pane the build sends targets the first pane of its
\* window, the pane of the lowest index, which exists, whatever the
\* server's window base index and pane base index are
C31_SelectsFirstPane ==
  \A j \in DOMAIN sb.sent :
    sb.sent[j].op = "select-pane" =>
      /\ sb.sent[j].index = PaneIndex(srv, 1)
      /\ (BuiltAt # 0 /\ WindowPos(srv.sessions[BuiltAt], sb.sent[j].window) # 0 =>
            Resolve(srv, sb.sent[j].session, sb.sent[j].window, sb.sent[j].index)
              # <<0, 0, 0>>)


\* C32: the handoff knows the foreground process of every pane it lists,
\* takes the panes by ascending index, and a pane that has got the
\* interrupt keystroke from the handoff has had the direct interrupt of its
\* process requested before
C32_DirectInterruptBeforeKeystroke ==
  /\ \A k \in DOMAIN ho.pane_infos :
       /\ ho.pane_infos[k].pid # NoPid
       /\ \A j \in DOMAIN ho.pane_infos : j < k => ho.pane_infos[j].index < ho.pane_infos[k].index
  /\ ho.pc = "send_stop" =>
       \E j \in DOMAIN ho.signals : ho.signals[j][1] = ho.pane_infos[ho.pi].index


\* C33: the sessions enumerated for project p contain the running main
\* session p and the running worktree session of p and the branch, and no
\* session that is the main or the worktree session of a different project,
\* also when a project name contains "__"
C33_ProjectSessionsEnumerated ==
  (fn.f = "running_project_sessions" /\ fn.done) =>
    LET own == {fn.project_name, ProjectWorktreeSessionName(fn.project_name, fn.branch)}
        foreign == {fn.other, ProjectWorktreeSessionName(fn.other, fn.branch)}
    IN /\ \A name \in own : name \in Range(fn.sessions) => name \in Range(fn.out)
       /\ fn.other # fn.project_name => \A name \in foreign \ own : name \notin Range(fn.out)


\* C34: once the multiplexer has closed the response block of the primary
\* command and the block of the sentinel command, each by %end or by
\* %error, command_with_output has returned, with success or with an error;
\* it is not reading any more
C34_ReturnsOnceBothBlocksClosed ==
  (/\ calls.kind = "cwo"
   /\ Len(tm.blocks) > calls.first
   /\ Primary.state \in {"end", "error"}
   /\ SentinelBlock.state \in {"end", "error"}) => cl.pc = "idle" /\ ret.status \in {"ok", "err"}


C36_FailingCommandDoesNotStop ==
  /\ \A k \in 1..MaxPost :
       (/\ sb.pc = "waiting" /\ sb.i = k
        /\ k \in DOMAIN sb.post_create_commands
        /\ Trim(sb.post_create_commands[k]) \in Failing)
       ~> (sb.i > k \/ sb.pc \in {"setup", "done"})
  /\ [](BuilderSucceeded =>
          /\ Len(ChainsSent) = Len(LivePostCreate)
          /\ \E j \in DOMAIN sb.sent : sb.sent[j].op = "select-window")

\* the build has succeeded although its first setup command failed
C36_Witness ==
  /\ BuilderSucceeded
  /\ sb.post_create_commands = <<"s", "i">>
  /\ Len(ChainsSent) = 2
  /\ \A j \in DOMAIN sb.sent : IsWait(sb.sent[j]) => sb.sent[j].item.token \in srv.signalled


\* the sessions of the project in which the command of a handoff window runs
RunningIn(window_name) ==
  {SessionOf(at) : at \in {x \in AllPanes(srv) :
                             /\ IsProjectSession(cfg.name, SessionOf(x))
                             /\ WindowOf(x) = window_name
                             /\ x[3] <= Len(CommandsOf(x))
                             /\ PaneAt(x).fg = CommandsOf(x)[x[3]]}}

\* every keystroke typed into a pane has been read
Settled == \A at \in AllPanes(srv) : PaneAt(at).q = <<>>

\* C37: when two handoffs of one project with different targets have both
\* returned success and the panes have read all their input, the command of
\* each handoff window runs in exactly one session of the project
C37_ConcurrentHandoffsLeaveOneInstance ==
  (/\ ho.pc = "done" /\ ho.result = "ok"
   /\ ho2.pc = "done" /\ ho2.result = "ok"
   /\ ho.target # ho2.target
   /\ Settled) =>
    \A k \in DOMAIN cfg.handoff_windows : Cardinality(RunningIn(cfg.handoff_windows[k])) = 1


\* C38: over the builds and handoffs of one project, the command of a
\* handoff window runs in one session of the project at most
C38_AtMostOneInstance ==
  \A k \in DOMAIN cfg.handoff_windows : Cardinality(RunningIn(cfg.handoff_windows[k])) <= 1


\* the command declared for pane k of a window spec, NoCmd when it has none
DeclaredCommand(window, k) ==
  IF HasPanes(window)
  THEN IF k \in DOMAIN Panes(window) THEN Panes(window)[k] ELSE NoCmd
  ELSE IF k = 1 THEN SimpleCommand(window) ELSE NoCmd

\* the panes a window spec asks for
DeclaredPanes(window) ==
  IF HasPanes(window) /\ Len(Panes(window)) >= 1 THEN Len(Panes(window)) ELSE 1

\* C39: during the build the i-th window of the session has no more panes
\* than the i-th window spec declares and its panes have got no command but
\* the one the i-th spec declares for them; after a successful build every
\* declared pane is there and has got its command
C39_CommandsReachTheirWindow ==
  BuiltAt # 0 =>
    \A i \in DOMAIN srv.sessions[BuiltAt].windows :
      i \in DOMAIN sb.windows =>
        LET w == srv.sessions[BuiltAt].windows[i]
            typed(k) == SelectSeq(w.panes[k].log, LAMBDA item : item.t = "cmd")
        IN /\ Len(w.panes) <= DeclaredPanes(sb.windows[i])
           /\ \A k \in DOMAIN w.panes :
                \A j \in DOMAIN typed(k) :
                  typed(k)[j] = CmdLine(DeclaredCommand(sb.windows[i], k))
           /\ BuilderSucceeded =>
                /\ Len(w.panes) = DeclaredPanes(sb.windows[i])
                /\ \A k \in DOMAIN w.panes :
                     DeclaredCommand(sb.windows[i], k) # NoCmd => Len(typed(k)) = 1


\* C40: a call of command that returns success returns the lines the
\* multiplexer emitted in the block of its command line, all of them and in
\* their order, those beginning with '%' included, and nothing else
C40_ExactBlockOutput ==
  (Returned("command") /\ ret.status = "ok") => ret.lines = Primary.out

====
